---- MODULE Spec2Model ----
(***************************************************************************)
(* Session store, tool dispatch and path sandbox of the coding-agent       *)
(* server (src/src/agent/engine.rs, src/src/agent/tools/*.rs,              *)
(* src/src/discovery.rs, src/src/file_ops.rs, src/src/storage.rs), its     *)
(* HTTP handlers (src/src/server.rs) and its settings (src/src/settings.rs).*)
(*                                                                         *)
(* A path is a sequence of component strings; the filesystem is a function *)
(* from the absolute paths that exist to their entries.  An optional value *)
(* (Rust Option) is a sequence of length 0 (None) or 1 (Some(v)).          *)
(***************************************************************************)
EXTENDS Integers, Sequences, FiniteSets, TLC

VARIABLES
    sessions,        \* sessions table: session id -> [settings]
    tool_events,     \* tool_events table, in insertion order
    context_items,   \* context_items table, in insertion order
    rules,           \* rules table: name -> content
    fs,              \* the filesystem: absolute path -> entry
    http_log,        \* the outbound HTTP requests made so far
    calls,           \* number of dispatch_tool calls made
    last,            \* what the last dispatch_tool call did and returned
    probe,           \* last resolve_under_root evaluation (path specification)
    issued,          \* the session ids Uuid::new_v4 has handed out
    messages,        \* messages table, in insertion order
    clock,           \* what Utc::now() reads
    pending,         \* the requests in flight, each at its next await point
    started,         \* number of requests begun
    ret,             \* what the last completed request or repository call returned
    eval             \* last evaluation of a pure function (settings, allowlist)

vars == <<sessions, tool_events, context_items, rules, fs, http_log, calls, last, probe, issued,
          messages, clock, pending, started, ret, eval>>

\* The variables only the requests of the store specification change.
store_only == <<messages, clock, pending, started, ret>>

\* ------------------------------------------------------------------ options

None == <<>>
Some(v) == <<v>>
IsSome(o) == o # <<>>
Unwrap(o) == o[1]
UnwrapOr(o, d) == IF o = <<>> THEN d ELSE o[1]

\* ------------------------------------------------------------------ bounds

\* Number of dispatch_tool calls in a behaviour.
MaxCalls == 1
\* Longest user-supplied path (in components) given to resolve_under_root
\* in the path specification.
MaxPathLen == 3

\* ------------------------------------------------------------------ filesystem

NoEntry == [kind |-> "none", data |-> "", to |-> <<>>]
DirEntry == [kind |-> "dir", data |-> "", to |-> <<>>]
FileEntry(d) == [kind |-> "file", data |-> d, to |-> <<>>]
LinkEntry(t) == [kind |-> "link", data |-> "", to |-> t]

Lookup(f, p) == IF p \in DOMAIN f THEN f[p] ELSE NoEntry

Front(p) == SubSeq(p, 1, Len(p) - 1)
Last(p) == p[Len(p)]

\* Path::starts_with: component-wise prefix.
StartsWith(p, base) == Len(base) <= Len(p) /\ SubSeq(p, 1, Len(base)) = base

\* Path::parent: None for the filesystem root.
Parent(p) == IF p = <<>> THEN None ELSE Some(Front(p))

\* f with entry e put at path q.
Put(f, q, e) == [p \in DOMAIN f \cup {q} |-> IF p = q THEN e ELSE f[p]]

\* f without the entry at q and everything below it.
RemoveTree(f, q) == [p \in {x \in DOMAIN f : ~StartsWith(x, q)} |-> f[p]]

\* The kernel's path walk from directory cur over the components todo, following
\* every symbolic link (the last component's too).  The result names the physical
\* path reached; its last component may be missing (the place where the path would
\* be created).  ".." is the physical parent.  fuel bounds the links followed
\* (ELOOP).
RECURSIVE Walk(_, _, _, _)
Walk(f, cur, todo, fuel) ==
    IF todo = <<>> THEN [ok |-> TRUE, path |-> cur]
    ELSE IF Lookup(f, cur).kind # "dir" THEN [ok |-> FALSE, path |-> <<>>]
    ELSE LET c == Head(todo)
             rest == Tail(todo)
             q == Append(cur, c)
             e == Lookup(f, q)
         IN  IF c = "." THEN Walk(f, cur, rest, fuel)
             ELSE IF c = ".." THEN Walk(f, IF cur = <<>> THEN cur ELSE Front(cur), rest, fuel)
             ELSE IF e.kind = "link"
                  THEN IF fuel = 0 THEN [ok |-> FALSE, path |-> <<>>]
                       ELSE Walk(f, <<>>, e.to \o rest, fuel - 1)
             ELSE IF e.kind = "none"
                  THEN IF rest = <<>> THEN [ok |-> TRUE, path |-> q]
                       ELSE [ok |-> FALSE, path |-> <<>>]
             ELSE Walk(f, q, rest, fuel)

\* Where the path p leads, with every symbolic link followed.
Follow(f, p) == Walk(f, <<>>, p, 8)

\* std::fs::canonicalize: the physical path of an existing entry, or an error.
canonicalize(f, p) ==
    LET Found(w) == IF w.ok /\ Lookup(f, w.path).kind # "none" THEN Some(w.path) ELSE None
    IN  Found(Follow(f, p))

\* std::fs::metadata: the entry p leads to with every symbolic link followed.
Stat(f, p) ==
    LET Reached(w) == IF w.ok THEN Lookup(f, w.path) ELSE NoEntry
    IN  Reached(Follow(f, p))

\* Path::exists, Path::is_file, Path::is_dir: all follow symbolic links.
exists(f, p) == Stat(f, p).kind # "none"
is_file(f, p) == Stat(f, p).kind = "file"
is_dir(f, p) == Stat(f, p).kind = "dir"

\* The physical path of the entry named by p itself (the last component is not
\* followed): what rename, mkdir and unlink act on.
EntryPath(f, p) ==
    LET In(w) ==
            IF ~w.ok \/ Lookup(f, w.path).kind # "dir" THEN [ok |-> FALSE, path |-> <<>>]
            ELSE IF Last(p) = "." THEN w
            ELSE IF Last(p) = ".."
                 THEN [ok |-> TRUE, path |-> IF w.path = <<>> THEN w.path ELSE Front(w.path)]
            ELSE [ok |-> TRUE, path |-> Append(w.path, Last(p))]
    IN  IF p = <<>> THEN [ok |-> TRUE, path |-> <<>>] ELSE In(Follow(f, Front(p)))

\* File::open(p) + read_to_end.
ReadFile(f, p) ==
    LET Opened(e) == IF e.kind = "file" THEN Some(e.data) ELSE None
    IN  Opened(Stat(f, p))

\* File::create(p) + write_all(d): open with O_CREAT | O_TRUNC, which follows a
\* symbolic link in the last component, a dangling one too.
CreateFile(f, p, d) ==
    LET Created(w) ==
            IF w.ok /\ Lookup(f, w.path).kind \in {"none", "file"}
            THEN [ok |-> TRUE, fs |-> Put(f, w.path, FileEntry(d))]
            ELSE [ok |-> FALSE, fs |-> f]
    IN  Created(Follow(f, p))

\* mkdir(p).
MkDir(f, p) ==
    LET Made(w) ==
            IF w.ok /\ Lookup(f, w.path).kind = "none"
            THEN [ok |-> TRUE, fs |-> Put(f, w.path, DirEntry)]
            ELSE [ok |-> FALSE, fs |-> f]
    IN  Made(EntryPath(f, p))

\* std::fs::create_dir_all(p): nothing to do for a directory; otherwise make the
\* parent, then p (mkdir fails when p names a file or a symbolic link).
RECURSIVE create_dir_all(_, _)
create_dir_all(f, p) ==
    LET Below(up) == IF up.ok THEN MkDir(up.fs, p) ELSE [ok |-> FALSE, fs |-> up.fs]
    IN  IF is_dir(f, p) THEN [ok |-> TRUE, fs |-> f]
        ELSE IF p = <<>> THEN [ok |-> FALSE, fs |-> f]
        ELSE Below(create_dir_all(f, Front(p)))

\* std::fs::rename(from, to): neither last component is followed.
Rename(f, from, to) ==
    LET Renamed(a, b) ==
            LET ea == Lookup(f, a.path)
                eb == Lookup(f, b.path)
                below == {x \in DOMAIN f : StartsWith(x, a.path)}
                kept == {x \in DOMAIN f : ~StartsWith(x, a.path) /\ ~StartsWith(x, b.path)}
            IN  IF ~a.ok \/ ~b.ok \/ ea.kind = "none" THEN [ok |-> FALSE, fs |-> f]
                ELSE IF a.path = b.path THEN [ok |-> TRUE, fs |-> f]
                ELSE IF StartsWith(b.path, a.path) \/ StartsWith(a.path, b.path)
                     THEN [ok |-> FALSE, fs |-> f]
                ELSE IF ea.kind = "dir" /\ eb.kind \in {"file", "link"} THEN [ok |-> FALSE, fs |-> f]
                ELSE IF ea.kind # "dir" /\ eb.kind = "dir" THEN [ok |-> FALSE, fs |-> f]
                ELSE IF eb.kind = "dir" /\ \E x \in DOMAIN f : x # b.path /\ StartsWith(x, b.path)
                     THEN [ok |-> FALSE, fs |-> f]
                ELSE [ok |-> TRUE,
                      fs |-> [p \in kept \cup {b.path \o SubSeq(x, Len(a.path) + 1, Len(x)) : x \in below} |->
                                 IF StartsWith(p, b.path)
                                 THEN f[a.path \o SubSeq(p, Len(b.path) + 1, Len(p))]
                                 ELSE f[p]]]
    IN  Renamed(EntryPath(f, from), EntryPath(f, to))

\* ------------------------------------------------------------------ path sandbox

\* A user-supplied path string: absolute or relative, then its components.
UserPath(abs, comps) == [abs |-> abs, comps |-> comps]
Rel(comps) == UserPath(FALSE, comps)
Abs(comps) == UserPath(TRUE, comps)

\* PathBuf::join: an absolute argument replaces the base.
Join(base, p) == IF p.abs THEN p.comps ELSE base \o p.comps

\* The fold of resolve_under_root over joined.components(): ParentDir pops (a pop
\* at the filesystem root does nothing), CurDir is dropped, anything else is pushed.
RECURSIVE Normalize(_, _)
Normalize(acc, comps) ==
    IF comps = <<>> THEN acc
    ELSE IF Head(comps) = ".." THEN Normalize(IF acc = <<>> THEN acc ELSE Front(acc), Tail(comps))
    ELSE IF Head(comps) = "." THEN Normalize(acc, Tail(comps))
    ELSE Normalize(Append(acc, Head(comps)), Tail(comps))

\* normalize_root: the root (absolute here) canonicalized.
normalize_root(f, root) == canonicalize(f, root)

\* resolve_under_root whose failed-canonicalize branch accepts any existing parent.
resolve_under_root_any_parent(f, root, rel) ==
    LET Checked(root_abs, full_path, canonical) ==
            IF IsSome(canonical)
            THEN IF StartsWith(Unwrap(canonical), root_abs) THEN canonical ELSE None
            ELSE IF canonicalize(f, UnwrapOr(Parent(full_path), root_abs)) = None THEN None
            ELSE Some(full_path)
        Normalized(root_abs, full_path) == Checked(root_abs, full_path, canonicalize(f, full_path))
        Rooted(root_opt) ==
            IF root_opt = None THEN None
            ELSE Normalized(Unwrap(root_opt), Normalize(<<>>, Join(Unwrap(root_opt), rel)))
    IN  Rooted(normalize_root(f, root))

\* resolve_under_root: join, fold, canonicalize; a canonical path must start with
\* the canonical root; when canonicalize fails, the canonical parent must.
resolve_under_root(f, root, rel) ==
    LET ParentChecked(root_abs, full_path, parent_canon) ==
            IF parent_canon = None THEN None
            ELSE IF StartsWith(Unwrap(parent_canon), root_abs) THEN Some(full_path) ELSE None
        Checked(root_abs, full_path, canonical) ==
            IF IsSome(canonical)
            THEN IF StartsWith(Unwrap(canonical), root_abs) THEN canonical ELSE None
            ELSE ParentChecked(root_abs, full_path,
                               canonicalize(f, UnwrapOr(Parent(full_path), root_abs)))
        Normalized(root_abs, full_path) == Checked(root_abs, full_path, canonicalize(f, full_path))
        Rooted(root_opt) ==
            IF root_opt = None THEN None
            ELSE Normalized(Unwrap(root_opt), Normalize(<<>>, Join(Unwrap(root_opt), rel)))
    IN  Rooted(normalize_root(f, root))

\* read_file_under_root: the content (max_bytes is not modelled), or the error.
read_file_under_root(f, root, rel) ==
    LET Read(path, content) ==
            IF content = None THEN [ok |-> FALSE, error |-> "not a file", content |-> ""]
            ELSE [ok |-> TRUE, error |-> "", content |-> Unwrap(content)]
        Resolved(path) ==
            IF path = None THEN [ok |-> FALSE, error |-> "path outside root", content |-> ""]
            ELSE IF ~exists(f, Unwrap(path)) THEN [ok |-> FALSE, error |-> "io error", content |-> ""]
            ELSE Read(path, ReadFile(f, Unwrap(path)))
    IN  Resolved(resolve_under_root(f, root, rel))

\* ------------------------------------------------------------------ settings

\* SessionSettings: every field an Option.
Settings(root, policies, allowlist) ==
    [default_model |-> None, model_params |-> None, project_root |-> root,
     tool_policies |-> policies, network_allowlist |-> allowlist]

\* ToolPolicies.
ToolPolicies(dry_run) == [dry_run |-> dry_run, max_read_bytes |-> None]

\* is_allowed_host that allows every host when there is no list.
is_allowed_host_open_without_list(allowlist, host) ==
    IF allowlist = None THEN TRUE
    ELSE \E i \in 1..Len(Unwrap(allowlist)) : Unwrap(allowlist)[i] = host

\* is_allowed_host: no list denies; otherwise some entry equals the host.
is_allowed_host(allowlist, host) ==
    IF allowlist = None THEN FALSE
    ELSE \E i \in 1..Len(Unwrap(allowlist)) : Unwrap(allowlist)[i] = host

\* ------------------------------------------------------------------ session store

\* A function without the key k.
Without(f, k) == [x \in DOMAIN f \ {k} |-> f[x]]

\* The rows of a child table that do not reference session id.
RECURSIVE WithoutSession(_, _)
WithoutSession(rows, id) ==
    IF rows = <<>> THEN <<>>
    ELSE IF Head(rows).session_id = id THEN WithoutSession(Tail(rows), id)
    ELSE <<Head(rows)>> \o WithoutSession(Tail(rows), id)

\* get_session: the row of the sessions table, if any.
get_session(store, id) == IF id \in DOMAIN store THEN Some(store[id]) ELSE None

ToolEvent(tool, summary, status, error, created_at) ==
    [tool |-> tool, summary |-> summary, status |-> status, error |-> error,
     created_at |-> created_at]

\* append_tool_event that stores no error text.
append_tool_event_without_error(events, id, ev) ==
    Append(events, [session_id |-> id, tool |-> ev.tool, summary |-> ev.summary,
                    status |-> ev.status, error |-> None, created_at |-> ev.created_at])

\* append_tool_event: INSERT INTO tool_events, one row for the session.
append_tool_event(events, id, ev) ==
    Append(events, [session_id |-> id, tool |-> ev.tool, summary |-> ev.summary,
                    status |-> ev.status, error |-> ev.error, created_at |-> ev.created_at])

\* add_context_item: INSERT INTO context_items.
add_context_item(items, id, kind, reference, content) ==
    Append(items, [session_id |-> id, kind |-> kind, reference |-> reference, content |-> content])

\* upsert_rule: one row per name.
upsert_rule(rs, name, content) == [n \in DOMAIN rs \cup {name} |-> IF n = name THEN content ELSE rs[n]]

\* ------------------------------------------------------------------ file operations

OpOk(applied, f) == [ok |-> TRUE, error |-> "", applied |-> applied, fs |-> f]
OpErr(msg, f) == [ok |-> FALSE, error |-> msg, applied |-> FALSE, fs |-> f]

\* write_file_under_root that creates and writes whatever dry_run says.
write_file_ignoring_dry_run(f, root, rel, content, create, dry_run) ==
    LET Written(made) == IF made.ok THEN OpOk(~dry_run, made.fs) ELSE OpErr("io error", f)
        Existing(path, st) ==
            IF st.kind = "none" /\ ~create THEN OpErr("file does not exist", f)
            ELSE IF st.kind = "dir" THEN OpErr("io error", f)
            ELSE Written(CreateFile(f, path, content))
        Resolved(path) ==
            IF path = None THEN OpErr("path outside root", f)
            ELSE Existing(Unwrap(path), Stat(f, Unwrap(path)))
    IN  Resolved(resolve_under_root(f, root, rel))

\* write_file_under_root: resolve, check existence, then (unless dry_run) create
\* and write.
write_file_under_root(f, root, rel, content, create, dry_run) ==
    LET Written(made) == IF made.ok THEN OpOk(TRUE, made.fs) ELSE OpErr("io error", f)
        Existing(path, st) ==
            IF st.kind = "none" /\ ~create THEN OpErr("file does not exist", f)
            ELSE IF st.kind = "dir" THEN OpErr("io error", f)
            ELSE IF dry_run THEN OpOk(FALSE, f)
            ELSE Written(CreateFile(f, path, content))
        Resolved(path) ==
            IF path = None THEN OpErr("path outside root", f)
            ELSE Existing(Unwrap(path), Stat(f, Unwrap(path)))
    IN  Resolved(resolve_under_root(f, root, rel))

\* move_file_under_root: resolve both, the source must exist, then (unless
\* dry_run) make the destination's parent directories and rename.
move_file_under_root(f, root, from_rel, to_rel, dry_run) ==
    LET Moved(dirs, moved) == IF moved.ok THEN OpOk(TRUE, moved.fs) ELSE OpErr("io error", dirs.fs)
        Made(from, to, dirs) ==
            IF ~dirs.ok THEN OpErr("io error", dirs.fs)
            ELSE Moved(dirs, Rename(dirs.fs, from, to))
        Resolved(from, to) ==
            IF from = None THEN OpErr("source outside root", f)
            ELSE IF to = None THEN OpErr("dest outside root", f)
            ELSE IF ~exists(f, Unwrap(from)) THEN OpErr("source does not exist", f)
            ELSE IF dry_run THEN OpOk(FALSE, f)
            ELSE Made(Unwrap(from), Unwrap(to),
                      create_dir_all(f, UnwrapOr(Parent(Unwrap(to)), <<>>)))
    IN  Resolved(resolve_under_root(f, root, from_rel), resolve_under_root(f, root, to_rel))

\* delete_file_under_root: resolve, the path must exist, then (unless dry_run)
\* remove the file, or the directory with everything below it.
delete_file_under_root(f, root, rel, dry_run) ==
    LET Resolved(path) ==
            IF path = None THEN OpErr("path outside root", f)
            ELSE IF ~exists(f, Unwrap(path)) THEN OpErr("file does not exist", f)
            ELSE IF dry_run THEN OpOk(FALSE, f)
            ELSE OpOk(TRUE, RemoveTree(f, Unwrap(path)))
    IN  Resolved(resolve_under_root(f, root, rel))

\* ------------------------------------------------------------------ git operations

GitDir == ".git"

\* Repository::discover from the resolved root: the nearest directory at or above
\* it that holds a .git directory.
RECURSIVE Discover(_, _)
Discover(f, dir) ==
    IF Lookup(f, Append(dir, GitDir)).kind = "dir" THEN Some(dir)
    ELSE IF dir = <<>> THEN None
    ELSE Discover(f, Front(dir))

\* open_repo.
open_repo(f, root) ==
    LET Found(repo) ==
            IF repo = None THEN [ok |-> FALSE, error |-> "git error", repo |-> <<>>]
            ELSE [ok |-> TRUE, error |-> "", repo |-> Unwrap(repo)]
        Resolved(r) ==
            IF r = None THEN [ok |-> FALSE, error |-> "invalid root", repo |-> <<>>]
            ELSE Found(Discover(f, Unwrap(r)))
    IN  Resolved(resolve_under_root(f, root, Rel(<<".">>)))

\* The work tree entries of a repository (everything but .git).
WorkTree(f, repo) ==
    {p \in DOMAIN f : StartsWith(p, repo) /\ p # repo /\ ~StartsWith(p, Append(repo, GitDir))}

\* add_all: stage everything and write the index file.
add_all(f, root) ==
    LET Opened(r) ==
            IF ~r.ok THEN OpErr(r.error, f)
            ELSE OpOk(TRUE, Put(f, r.repo \o <<GitDir, "index">>, FileEntry("staged")))
    IN  Opened(open_repo(f, root))

\* commit: write the commit object oid and point HEAD at it.
commit(f, root, oid) ==
    LET Opened(r) ==
            IF ~r.ok THEN OpErr(r.error, f)
            ELSE OpOk(TRUE, Put(Put(f, r.repo \o <<GitDir, oid>>, FileEntry("commit")),
                                r.repo \o <<GitDir, "HEAD">>, FileEntry(oid)))
    IN  Opened(open_repo(f, root))

\* status: the entries of the work tree; reads only.
status(f, root) ==
    LET Opened(r) ==
            IF ~r.ok THEN [ok |-> FALSE, error |-> r.error, entries |-> {}]
            ELSE [ok |-> TRUE, error |-> "", entries |-> WorkTree(f, r.repo)]
    IN  Opened(open_repo(f, root))

\* diff_porcelain: the patch text (modelled by its length); reads only.
diff_porcelain(f, root) ==
    LET Opened(r) ==
            IF ~r.ok THEN [ok |-> FALSE, error |-> r.error, chars |-> 0]
            ELSE [ok |-> TRUE, error |-> "", chars |-> Cardinality(WorkTree(f, r.repo))]
    IN  Opened(open_repo(f, root))

\* ------------------------------------------------------------------ tools

\* What a tool can touch besides the session row it was given.
World(f, items, rs, http, ids) ==
    [fs |-> f, context_items |-> items, rules |-> rs, http_log |-> http, session_ids |-> ids]

\* ToolContext.
ToolContext(session_id, settings) == [session_id |-> session_id, settings |-> settings]

\* The JSON arguments: every key an Option (absent: None).
NoArgs ==
    [path |-> None, from |-> None, to |-> None, content |-> None, create |-> None,
     dry_run |-> None, url |-> None, name |-> None, system |-> None, repo_dir |-> None,
     pattern |-> None, message |-> None]

\* anyhow::Result<ToolResult>, with the world the run left behind.
ToolOk(summary, data, w) == [ok |-> TRUE, error |-> "", summary |-> summary, data |-> data, w |-> w]
ToolErr(msg, w) == [ok |-> FALSE, error |-> msg, summary |-> <<>>, data |-> None, w |-> w]

WithFs(w, f) == [w EXCEPT !.fs = f]

\* The dry_run default that falls back to false.
EffectiveDryRunDefaultFalse(settings, args) ==
    UnwrapOr(args.dry_run,
             UnwrapOr(IF settings.tool_policies = None THEN None
                      ELSE Unwrap(settings.tool_policies).dry_run, FALSE))

\* args.dry_run, else tool_policies.dry_run, else true.
EffectiveDryRun(settings, args) ==
    UnwrapOr(args.dry_run,
             UnwrapOr(IF settings.tool_policies = None THEN None
                      ELSE Unwrap(settings.tool_policies).dry_run, TRUE))

WriteTool(ctx, args, w, env) ==
    LET Done(res) ==
            IF ~res.ok THEN ToolErr(res.error, WithFs(w, res.fs))
            ELSE ToolOk(<<"write", Unwrap(args.path), res.applied>>,
                        Some([applied |-> res.applied]), WithFs(w, res.fs))
    IN  IF args.path = None THEN ToolErr("missing path", w)
        ELSE IF args.content = None THEN ToolErr("missing content", w)
        ELSE IF ctx.settings.project_root = None THEN ToolErr("no project_root", w)
        ELSE Done(write_file_under_root(w.fs, Unwrap(ctx.settings.project_root),
                                        Unwrap(args.path), Unwrap(args.content),
                                        UnwrapOr(args.create, TRUE),
                                        EffectiveDryRun(ctx.settings, args)))

MoveTool(ctx, args, w, env) ==
    LET Done(res) ==
            IF ~res.ok THEN ToolErr(res.error, WithFs(w, res.fs))
            ELSE ToolOk(<<"move", <<Unwrap(args.from), Unwrap(args.to)>>, res.applied>>,
                        Some([applied |-> res.applied]), WithFs(w, res.fs))
    IN  IF args.from = None THEN ToolErr("missing from", w)
        ELSE IF args.to = None THEN ToolErr("missing to", w)
        ELSE IF ctx.settings.project_root = None THEN ToolErr("no project_root", w)
        ELSE Done(move_file_under_root(w.fs, Unwrap(ctx.settings.project_root),
                                       Unwrap(args.from), Unwrap(args.to),
                                       EffectiveDryRun(ctx.settings, args)))

DeleteTool(ctx, args, w, env) ==
    LET Done(res) ==
            IF ~res.ok THEN ToolErr(res.error, WithFs(w, res.fs))
            ELSE ToolOk(<<"delete", Unwrap(args.path), res.applied>>,
                        Some([applied |-> res.applied]), WithFs(w, res.fs))
    IN  IF args.path = None THEN ToolErr("missing path", w)
        ELSE IF ctx.settings.project_root = None THEN ToolErr("no project_root", w)
        ELSE Done(delete_file_under_root(w.fs, Unwrap(ctx.settings.project_root),
                                         Unwrap(args.path), EffectiveDryRun(ctx.settings, args)))

\* list_files: the entries below the root (ignore files and max are not modelled).
list_files(f, root) ==
    LET Walked(r) ==
            IF r = None THEN {} ELSE {p \in DOMAIN f : StartsWith(p, Unwrap(r)) /\ p # Unwrap(r)}
    IN  Walked(normalize_root(f, root))

\* search_files: the walked entries whose path matches; a pattern is modelled by
\* the component it matches.
search_files(f, root, pattern) ==
    {p \in list_files(f, root) : \E i \in 1..Len(p) : p[i] = pattern}

ListTool(ctx, args, w, env) ==
    IF ctx.settings.project_root = None THEN ToolErr("no project_root", w)
    ELSE ToolOk(<<"items", Cardinality(list_files(w.fs, Unwrap(ctx.settings.project_root))), FALSE>>,
                None, w)

SearchTool(ctx, args, w, env) ==
    IF args.pattern = None THEN ToolErr("missing pattern", w)
    ELSE IF ctx.settings.project_root = None THEN ToolErr("no project_root", w)
    ELSE ToolOk(<<"matches", Cardinality(search_files(w.fs, Unwrap(ctx.settings.project_root),
                                                       Unwrap(args.pattern))), FALSE>>, None, w)

ReadTool(ctx, args, w, env) ==
    LET Done(res) ==
            IF ~res.ok THEN ToolErr(res.error, w)
            ELSE ToolOk(<<"read", Unwrap(args.path), res.content>>, None, w)
    IN  IF args.path = None THEN ToolErr("missing path", w)
        ELSE IF ctx.settings.project_root = None THEN ToolErr("no project_root", w)
        ELSE Done(read_file_under_root(w.fs, Unwrap(ctx.settings.project_root), Unwrap(args.path)))

IncludeFileTool(ctx, args, w, env) ==
    LET Done(res) ==
            IF ~res.ok THEN ToolErr(res.error, w)
            ELSE IF ctx.session_id \notin w.session_ids
                 THEN ToolErr("FOREIGN KEY constraint failed", w)
            ELSE ToolOk(<<"file", Unwrap(args.path), res.content>>, None,
                        [w EXCEPT !.context_items =
                            add_context_item(@, ctx.session_id, "file", Unwrap(args.path), res.content)])
    IN  IF args.path = None THEN ToolErr("missing path", w)
        ELSE IF ctx.settings.project_root = None THEN ToolErr("no project_root", w)
        ELSE Done(read_file_under_root(w.fs, Unwrap(ctx.settings.project_root), Unwrap(args.path)))

\* A URL string: whether Url::parse accepts it, and the host as written (None
\* for a URL without a host).
Url(valid, host) == [valid |-> valid, host |-> host]

\* The lower-case form of a host name.
ToLower(h) == IF h = "DOCS.example" THEN "docs.example" ELSE h

\* Url::parse(url)?.host_str(): the url crate lower-cases the host of an http URL.
host_str(url) == IF url.host = None THEN None ELSE Some(ToLower(Unwrap(url.host)))

\* IncludeUrlTool::run with the request sent before the allowlist is consulted.
IncludeUrlFetchFirst(ctx, args, w, env) ==
    LET Fetched(url, sent) ==
            IF env.fetch = None THEN ToolErr("fetch failed", sent)
            ELSE IF ctx.session_id \notin sent.session_ids
                 THEN ToolErr("FOREIGN KEY constraint failed", sent)
            ELSE ToolOk(<<"url", url, Unwrap(env.fetch)>>, Some([url |-> url]),
                        [sent EXCEPT !.context_items =
                            add_context_item(@, ctx.session_id, "url", url, Unwrap(env.fetch))])
        Parsed(url, host, sent) ==
            IF host = None THEN ToolErr("invalid host", w)
            ELSE IF ~is_allowed_host(ctx.settings.network_allowlist, Unwrap(host))
                 THEN ToolErr("host not allowlisted", sent)
            ELSE Fetched(url, sent)
    IN  IF args.url = None THEN ToolErr("missing url", w)
        ELSE IF ~Unwrap(args.url).valid THEN ToolErr("invalid url", w)
        ELSE Parsed(Unwrap(args.url), host_str(Unwrap(args.url)),
                    [w EXCEPT !.http_log = Append(@, Unwrap(args.url))])

\* IncludeUrlTool::run.  env.fetch is what fetch_and_extract returns for the
\* request: None when the request fails, the extracted text otherwise.
IncludeUrlTool(ctx, args, w, env) ==
    LET Fetched(url, sent) ==
            IF env.fetch = None THEN ToolErr("fetch failed", sent)
            ELSE IF ctx.session_id \notin sent.session_ids
                 THEN ToolErr("FOREIGN KEY constraint failed", sent)
            ELSE ToolOk(<<"url", url, Unwrap(env.fetch)>>, Some([url |-> url]),
                        [sent EXCEPT !.context_items =
                            add_context_item(@, ctx.session_id, "url", url, Unwrap(env.fetch))])
        Parsed(url, host) ==
            IF host = None THEN ToolErr("invalid host", w)
            ELSE IF ~is_allowed_host(ctx.settings.network_allowlist, Unwrap(host))
                 THEN ToolErr("host not allowlisted", w)
            ELSE Fetched(url, [w EXCEPT !.http_log = Append(@, url)])
    IN  IF args.url = None THEN ToolErr("missing url", w)
        ELSE IF ~Unwrap(args.url).valid THEN ToolErr("invalid url", w)
        ELSE Parsed(Unwrap(args.url), host_str(Unwrap(args.url)))

\* A rule name is a sequence of characters.
LowerChar(c) == CASE c = "Q" -> "q" [] c = "A" -> "a" [] OTHER -> c
IsAlphanumeric(c) == c \in {"q", "a", "x", "1", "Q", "A"}

RECURSIVE MapChars(_)
MapChars(name) ==
    IF name = <<>> THEN <<>>
    ELSE LET c == LowerChar(Head(name))
         IN  <<IF IsAlphanumeric(c) THEN c ELSE "-">> \o MapChars(Tail(name))

\* while s.contains("--") { s = s.replace("--", "-") }
RECURSIVE CollapseDashes(_)
CollapseDashes(t) ==
    IF Len(t) < 2 THEN t
    ELSE IF t[1] = "-" /\ t[2] = "-" THEN CollapseDashes(Tail(t))
    ELSE <<Head(t)>> \o CollapseDashes(Tail(t))

\* trim_matches('-')
RECURSIVE TrimDashes(_)
TrimDashes(t) ==
    IF t = <<>> THEN t
    ELSE IF Head(t) = "-" THEN TrimDashes(Tail(t))
    ELSE IF Last(t) = "-" THEN TrimDashes(Front(t))
    ELSE t

slugify(name) == TrimDashes(CollapseDashes(MapChars(name)))

\* The characters as one string.
RECURSIVE Str(_)
Str(chars) == IF chars = <<>> THEN "" ELSE Head(chars) \o Str(Tail(chars))

\* format!("{}.md", slugify(name))
RuleFileName(name) == Str(slugify(name)) \o ".md"

DefaultRepoDir == Rel(<<".cursor", "rules">>)

\* AddRuleTool::run: a system rule goes to the rules table; a repository rule is
\* written to <project_root>/<repo_dir>/<slug>.md.
AddRuleTool(ctx, args, w, env) ==
    LET Written(path, dirs, made) ==
            IF ~made.ok THEN ToolErr("io error", WithFs(w, dirs.fs))
            ELSE ToolOk(<<"repo rule", path, FALSE>>, None, WithFs(w, made.fs))
        Made(path, dirs) ==
            IF ~dirs.ok THEN ToolErr("io error", WithFs(w, dirs.fs))
            ELSE Written(path, dirs, CreateFile(dirs.fs, path, Unwrap(args.content)))
        Joined(path) == Made(path, create_dir_all(w.fs, Front(path)))
    IN  IF args.name = None THEN ToolErr("missing name", w)
        ELSE IF args.content = None THEN ToolErr("missing content", w)
        ELSE IF UnwrapOr(args.system, FALSE)
             THEN ToolOk(<<"system rule", Unwrap(args.name), FALSE>>, None,
                         [w EXCEPT !.rules = upsert_rule(@, Unwrap(args.name), Unwrap(args.content))])
        ELSE IF ctx.settings.project_root = None THEN ToolErr("no project_root", w)
        ELSE Joined(Append(Join(Unwrap(ctx.settings.project_root),
                                UnwrapOr(args.repo_dir, DefaultRepoDir)),
                           RuleFileName(Unwrap(args.name))))

StatusTool(ctx, args, w, env) ==
    LET Done(st) ==
            IF ~st.ok THEN ToolErr(st.error, w)
            ELSE ToolOk(<<"entries", Cardinality(st.entries), FALSE>>, None, w)
    IN  IF ctx.settings.project_root = None THEN ToolErr("no project_root", w)
        ELSE Done(status(w.fs, Unwrap(ctx.settings.project_root)))

DiffTool(ctx, args, w, env) ==
    LET Done(d) ==
            IF ~d.ok THEN ToolErr(d.error, w)
            ELSE ToolOk(<<"chars", d.chars, FALSE>>, None, w)
    IN  IF ctx.settings.project_root = None THEN ToolErr("no project_root", w)
        ELSE Done(diff_porcelain(w.fs, Unwrap(ctx.settings.project_root)))

AddAllTool(ctx, args, w, env) ==
    LET Done(res) ==
            IF ~res.ok THEN ToolErr(res.error, w)
            ELSE ToolOk(<<"git add -A", 0, FALSE>>, None, WithFs(w, res.fs))
    IN  IF ctx.settings.project_root = None THEN ToolErr("no project_root", w)
        ELSE Done(add_all(w.fs, Unwrap(ctx.settings.project_root)))

CommitTool(ctx, args, w, env) ==
    LET Done(res) ==
            IF ~res.ok THEN ToolErr(res.error, w)
            ELSE ToolOk(<<"commit", env.oid, FALSE>>, None, WithFs(w, res.fs))
    IN  IF args.message = None THEN ToolErr("missing message", w)
        ELSE IF ctx.settings.project_root = None THEN ToolErr("no project_root", w)
        ELSE Done(commit(w.fs, Unwrap(ctx.settings.project_root), env.oid))

\* ------------------------------------------------------------------ registry, dispatch

\* ToolRegistry::with_default_tools, in registration order.
Registry ==
    <<"include_file", "include_url", "add_rule", "discovery.list", "discovery.search",
      "discovery.read", "files.write", "files.move", "files.delete", "git.status",
      "git.diff", "git.add_all", "git.commit">>

\* ToolRegistry::get.
registry_get(name) == IF \E i \in 1..Len(Registry) : Registry[i] = name THEN Some(name) ELSE None

\* Tool::run of the tool registered under name.
Run(name, ctx, args, w, env) ==
    CASE name = "include_file" -> IncludeFileTool(ctx, args, w, env)
      [] name = "include_url" -> IncludeUrlTool(ctx, args, w, env)
      [] name = "add_rule" -> AddRuleTool(ctx, args, w, env)
      [] name = "discovery.list" -> ListTool(ctx, args, w, env)
      [] name = "discovery.search" -> SearchTool(ctx, args, w, env)
      [] name = "discovery.read" -> ReadTool(ctx, args, w, env)
      [] name = "files.write" -> WriteTool(ctx, args, w, env)
      [] name = "files.move" -> MoveTool(ctx, args, w, env)
      [] name = "files.delete" -> DeleteTool(ctx, args, w, env)
      [] name = "git.status" -> StatusTool(ctx, args, w, env)
      [] name = "git.diff" -> DiffTool(ctx, args, w, env)
      [] name = "git.add_all" -> AddAllTool(ctx, args, w, env)
      [] name = "git.commit" -> CommitTool(ctx, args, w, env)

\* What dispatch_tool returns and leaves behind: ran tells whether a tool was run.
Dispatched(ok, error, summary, data, ran, events, w) ==
    [ok |-> ok, error |-> error, summary |-> summary, data |-> data, ran |-> ran,
     events |-> events, w |-> w]

\* dispatch_tool that records the ok event whatever the run returned.
dispatch_tool_event_always(store, events, w, session_id, tool_name, args, env) ==
    LET Ran(tool, res) ==
            Dispatched(res.ok, res.error, res.summary, res.data, TRUE,
                       append_tool_event(events, session_id,
                                         ToolEvent(tool, res.summary, "ok", None, env.now)), res.w)
        Found(sess, tool) ==
            IF sess = None THEN Dispatched(FALSE, "session not found", <<>>, None, FALSE, events, w)
            ELSE IF tool = None THEN Dispatched(FALSE, "unknown tool", <<>>, None, FALSE, events, w)
            ELSE Ran(Unwrap(tool),
                     Run(Unwrap(tool), ToolContext(session_id, Unwrap(sess).settings), args, w, env))
    IN  Found(get_session(store, session_id), registry_get(tool_name))

\* dispatch_tool that looks the tool up before it loads the session.
dispatch_tool_registry_first(store, events, w, session_id, tool_name, args, env) ==
    LET Ran(tool, res) ==
            IF ~res.ok THEN Dispatched(FALSE, res.error, <<>>, None, TRUE, events, res.w)
            ELSE Dispatched(TRUE, "", res.summary, res.data, TRUE,
                            append_tool_event(events, session_id,
                                              ToolEvent(tool, res.summary, "ok", None, env.now)), res.w)
        Found(sess, tool) ==
            IF tool = None THEN Dispatched(FALSE, "unknown tool", <<>>, None, FALSE, events, w)
            ELSE IF sess = None THEN Dispatched(FALSE, "session not found", <<>>, None, FALSE, events, w)
            ELSE Ran(Unwrap(tool),
                     Run(Unwrap(tool), ToolContext(session_id, Unwrap(sess).settings), args, w, env))
    IN  Found(get_session(store, session_id), registry_get(tool_name))

\* dispatch_tool: load the session, look the tool up, run it; a failing run
\* returns its error at once, a successful one appends the ok event.
dispatch_tool(store, events, w, session_id, tool_name, args, env) ==
    LET Ran(tool, res) ==
            IF ~res.ok THEN Dispatched(FALSE, res.error, <<>>, None, TRUE, events, res.w)
            ELSE Dispatched(TRUE, "", res.summary, res.data, TRUE,
                            append_tool_event(events, session_id,
                                              ToolEvent(tool, res.summary, "ok", None, env.now)), res.w)
        Found(sess, tool) ==
            IF sess = None THEN Dispatched(FALSE, "session not found", <<>>, None, FALSE, events, w)
            ELSE IF tool = None THEN Dispatched(FALSE, "unknown tool", <<>>, None, FALSE, events, w)
            ELSE Ran(Unwrap(tool),
                     Run(Unwrap(tool), ToolContext(session_id, Unwrap(sess).settings), args, w, env))
    IN  Found(get_session(store, session_id), registry_get(tool_name))

\* ------------------------------------------------------------------ initial filesystems

\* The function with the given <<path, entry>> pairs.
FsOf(pairs) == [p \in {x[1] : x \in pairs} |-> (CHOOSE x \in pairs : x[1] = p)[2]]

\* The project root /r beside a directory /o that is not part of the project.
RootDir == <<"r">>

PlainEntries ==
    { <<<<>>, DirEntry>>,
      <<<<"r">>, DirEntry>>,
      <<<<"r", "a">>, FileEntry("old")>>,
      <<<<"r", "d">>, DirEntry>>,
      <<<<"r", "d", "f">>, FileEntry("old")>>,
      <<<<"o">>, DirEntry>>,
      <<<<"o", "s">>, FileEntry("old")>> }

\* Symbolic links: inside the root to a file and a directory outside it, a
\* dangling one to a missing file outside it, and one outside the root into it.
LinkEntries ==
    { <<<<"r", "lo">>, LinkEntry(<<"o", "s">>)>>,
      <<<<"r", "ld">>, LinkEntry(<<"o">>)>>,
      <<<<"r", "dang">>, LinkEntry(<<"o", "t">>)>>,
      <<<<"o", "li">>, LinkEntry(<<"r", "d">>)>> }

GitEntries == { <<<<"r", GitDir>>, DirEntry>> }

\* Two initial filesystems: the plain project, and the project with the symbolic
\* links and a git repository.
FsLayouts == { FsOf(PlainEntries), FsOf(PlainEntries \cup LinkEntries \cup GitEntries) }

\* ------------------------------------------------------------------ inputs

SessionIds == {"s1"}
\* An id no session ever has.
SessionIdInputs == SessionIds \cup {"s0"}

SettingsInputs ==
    { Settings(None, None, None),
      Settings(None, None, Some(<<"docs.example">>)),
      Settings(Some(RootDir), None, Some(<<>>)),
      Settings(Some(RootDir), Some(ToolPolicies(None)), None),
      Settings(Some(RootDir), Some(ToolPolicies(Some(TRUE))), Some(<<"docs.example">>)),
      Settings(Some(RootDir), Some(ToolPolicies(Some(FALSE))), Some(<<"docs.example">>)) }

DryRunInputs == {None, Some(TRUE), Some(FALSE)}

PathInputs ==
    { Rel(<<"a">>), Rel(<<"n">>), Rel(<<"d">>), Rel(<<"lo">>), Rel(<<"dang">>),
      Rel(<<"ld", "n">>), Rel(<<"..", "o", "li", "n">>), Abs(<<"o", "s">>) }

DeleteInputs == { Rel(<<"a">>), Rel(<<"n">>), Rel(<<"d">>), Rel(<<"lo">>), Rel(<<"..", "o", "s">>) }

MoveInputs ==
    { <<Rel(<<"a">>), Rel(<<"d", "x", "n">>)>>, <<Rel(<<"a">>), Rel(<<"dang">>)>>,
      <<Rel(<<"a">>), Rel(<<"..", "o", "n">>)>>, <<Rel(<<"..", "o", "s">>), Rel(<<"n">>)>>,
      <<Rel(<<"lo">>), Rel(<<"n">>)>>, <<Rel(<<"n">>), Rel(<<"a">>)>> }

ReadInputs == { Rel(<<"a">>), Rel(<<"d">>), Rel(<<"lo">>), Rel(<<"..", "o", "s">>) }

UrlInputs ==
    { Url(FALSE, None), Url(TRUE, None), Url(TRUE, Some("docs.example")),
      Url(TRUE, Some("DOCS.example")), Url(TRUE, Some("evil.example")) }

RuleNameInputs == { <<"Q", "A">>, <<".", ".", "/", "x">> }
RepoDirInputs == { None, Some(Rel(<<"d">>)), Some(Rel(<<"..", "o">>)), Some(Abs(<<"o", "new">>)) }

ArgsFor(name) ==
    CASE name = "files.write" ->
            { [NoArgs EXCEPT !.path = Some(p), !.content = Some("new"), !.dry_run = d] :
                p \in PathInputs, d \in DryRunInputs }
            \cup { [NoArgs EXCEPT !.path = Some(Rel(<<"n">>)), !.content = Some("new"),
                                  !.create = Some(FALSE), !.dry_run = Some(FALSE)] }
      [] name = "files.delete" ->
            { [NoArgs EXCEPT !.path = Some(p), !.dry_run = d] : p \in DeleteInputs, d \in DryRunInputs }
      [] name = "files.move" ->
            { [NoArgs EXCEPT !.from = Some(m[1]), !.to = Some(m[2]), !.dry_run = d] :
                m \in MoveInputs, d \in DryRunInputs }
      [] name \in {"discovery.read", "include_file"} ->
            { [NoArgs EXCEPT !.path = Some(p)] : p \in ReadInputs }
      [] name = "discovery.search" -> { [NoArgs EXCEPT !.pattern = Some("a")] }
      [] name = "include_url" -> { [NoArgs EXCEPT !.url = Some(u)] : u \in UrlInputs }
      [] name = "add_rule" ->
            { [NoArgs EXCEPT !.name = Some(n), !.content = Some("rule"), !.repo_dir = r] :
                n \in RuleNameInputs, r \in RepoDirInputs }
            \cup { [NoArgs EXCEPT !.name = Some(<<"Q", "A">>), !.content = Some("rule"),
                                  !.system = Some(TRUE)] }
      [] name = "git.commit" -> { [NoArgs EXCEPT !.message = Some("msg")] }
      [] OTHER -> {}

\* The registered names and one that is not registered.
ToolNameInputs == {Registry[i] : i \in 1..Len(Registry)} \cup {"files.copy"}

\* The calls tried: every argument set with the session id that can exist, the
\* empty arguments with the id that never does.
CallInputs ==
    { <<id, name, args>> : id \in SessionIds, name \in ToolNameInputs, args \in {NoArgs} }
    \cup UNION { { <<id, name, args>> : id \in SessionIds, args \in ArgsFor(name) } : name \in ToolNameInputs }
    \cup { <<"s0", name, NoArgs>> : name \in {"files.write", "files.copy"} }

\* What the outside world answers during one call: the result of the HTTP fetch,
\* the object id of a new commit and the reading of Utc::now().
EnvFor(name, n) ==
    { [fetch |-> x, oid |-> "commit" \o ToString(n), now |-> clock] :
        x \in IF name = "include_url" THEN {None, Some("page")} ELSE {None} }

\* ------------------------------------------------------------------ state machine

NoCall ==
    [session_id |-> "", tool |-> "", args |-> NoArgs, ok |-> FALSE, error |-> "",
     summary |-> <<>>, data |-> None, ran |-> FALSE]

NoProbe == [root |-> <<>>, rel |-> Rel(<<>>), result |-> None]

NoReturn == [op |-> "", id |-> "", status |-> "", value |-> None]

NoEval == [fn |-> "", args |-> <<>>, result |-> None]

Init ==
    /\ sessions = [id \in {} |-> None]
    /\ issued = {}
    /\ tool_events = <<>>
    /\ context_items = <<>>
    /\ rules = [n \in {} |-> ""]
    /\ fs \in FsLayouts
    /\ http_log = <<>>
    /\ calls = 0
    /\ last = NoCall
    /\ probe = NoProbe
    /\ messages = <<>>
    /\ clock = 0
    /\ pending = {}
    /\ started = 0
    /\ ret = NoReturn
    /\ eval = NoEval

\* create_session: a fresh id, a row with the given settings.
CreateSession(settings) ==
    /\ \E id \in SessionIds \ issued :
          /\ issued' = issued \cup {id}
          /\ sessions' = [x \in DOMAIN sessions \cup {id} |->
                             IF x = id THEN [settings |-> settings, created_at |-> clock]
                             ELSE sessions[x]]
    /\ UNCHANGED <<tool_events, context_items, rules, fs, http_log, calls, last, probe,
                   store_only, eval>>

\* delete_session: DELETE FROM sessions; the child rows go with it.
DeleteSession(id) ==
    /\ id \in DOMAIN sessions
    /\ sessions' = Without(sessions, id)
    /\ tool_events' = WithoutSession(tool_events, id)
    /\ context_items' = WithoutSession(context_items, id)
    /\ messages' = WithoutSession(messages, id)
    /\ UNCHANGED <<rules, fs, http_log, calls, last, probe, issued, clock, pending, started, ret, eval>>

\* One dispatch_tool call, from the load of the session to the returned value.
DispatchTool(session_id, tool_name, args, env) ==
    /\ calls < MaxCalls
    /\ LET d == dispatch_tool(sessions, tool_events, World(fs, context_items, rules, http_log, DOMAIN sessions),
                              session_id, tool_name, args, env)
       IN  /\ tool_events' = d.events
           /\ fs' = d.w.fs
           /\ context_items' = d.w.context_items
           /\ rules' = d.w.rules
           /\ http_log' = d.w.http_log
           /\ last' = [session_id |-> session_id, tool |-> tool_name, args |-> args,
                       ok |-> d.ok, error |-> d.error, summary |-> d.summary,
                       data |-> d.data, ran |-> d.ran]
    /\ calls' = calls + 1
    /\ UNCHANGED <<sessions, probe, issued, store_only, eval>>

Next ==
    \/ \E settings \in SettingsInputs : CreateSession(settings)
    \/ \E id \in SessionIds : DeleteSession(id)
    \/ \E c \in CallInputs : \E env \in EnvFor(c[2], calls) : DispatchTool(c[1], c[2], c[3], env)

Spec == Init /\ [][Next]_vars

\* ------------------------------------------------------------------ path specification

\* Every path of at most MaxPathLen components over the names of the initial
\* filesystems, relative and absolute.
PathComps == {"..", ".", "r", "a", "d", "n", "ld", "dang", "o", "s", "li"}
ProbePaths ==
    { UserPath(abs, comps) : abs \in BOOLEAN, comps \in UNION {[1..k -> PathComps] : k \in 0..MaxPathLen} }
\* Roots: the project root, a directory in it, a symbolic link to that directory.
ProbeRoots == { <<"r">>, <<"r", "d">>, <<"o", "li">> }

\* One evaluation of resolve_under_root.
Probe(root, rel) ==
    /\ probe' = [root |-> root, rel |-> rel, result |-> resolve_under_root(fs, root, rel)]
    /\ UNCHANGED <<sessions, tool_events, context_items, rules, fs, http_log, calls, last, issued,
                   store_only, eval>>

\* One probe in a behaviour.
NextPath == probe = NoProbe /\ \E root \in ProbeRoots, rel \in ProbePaths : Probe(root, rel)

SpecPath == Init /\ [][NextPath]_vars

\* ------------------------------------------------------------------ requests in flight

\* The requests begun in one behaviour, and the last reading of the clock.
MaxRequests == 1
MaxClock == 1

\* Message.
Message(role, content_summary, model_used, created_at) ==
    [role |-> role, content_summary |-> content_summary, model_used |-> model_used,
     created_at |-> created_at]

\* append_message: INSERT INTO messages, one row for the session.
append_message(msgs, id, msg) ==
    Append(msgs, [session_id |-> id, role |-> msg.role, content_summary |-> msg.content_summary,
                  model_used |-> msg.model_used, created_at |-> msg.created_at])

\* Child tables without a foreign key: every INSERT is accepted.
ForeignKeyOff(store, id) == TRUE

\* The foreign key of the child tables: an INSERT of a row for a session is
\* accepted only while the sessions table has that session's row.
ForeignKeyOk(store, id) == id \in DOMAIN store

\* The characters kept of a posted content.
SummaryMax == 200

\* A text is the sequence of its characters, each named by a string; the two
\* length notions of a Rust String apply to it: bytes of the UTF-8 encoding
\* (str::len, slicing) and characters.
Utf8Len(c) ==
    CASE c \in {"e-acute", "a-circumflex", "broken-bar"} -> 2
      [] c \in {"euro"} -> 3
      [] OTHER -> 1

\* The positions of the characters of at least w bytes.
WideAt(text, w) == {i \in 1..Len(text) : Utf8Len(text[i]) >= w}

\* The byte offset just after the first k characters: one for every character
\* plus one for every character of at least two bytes, of at least three, of four.
OffsetAfter(k, w2, w3, w4) ==
    k + Cardinality({i \in w2 : i <= k}) + Cardinality({i \in w3 : i <= k})
      + Cardinality({i \in w4 : i <= k})

\* str::len: the length in bytes.
ByteLen(text) == OffsetAfter(Len(text), WideAt(text, 2), WideAt(text, 3), WideAt(text, 4))

\* The characters the source file has for the marker between the quotes of the
\* format string.
Marker == <<"a-circumflex", "euro", "broken-bar">>

\* The number of leading characters that end at byte offset n, if any does.
CharsBefore(text, n) ==
    LET Found(ks) == IF ks = {} THEN None ELSE Some(CHOOSE k \in ks : TRUE)
        Among(w2, w3, w4) ==
            Found({k \in 0..Len(text) : OffsetAfter(k, w2, w3, w4) = n})
    IN  Among(WideAt(text, 2), WideAt(text, 3), WideAt(text, 4))

\* str::is_char_boundary: byte offset n is where a character of the text starts
\* or where the text ends.
is_char_boundary(text, n) == CharsBefore(text, n) # None

\* &text[..n] for a boundary n.
ByteSlice(text, n) == SubSeq(text, 1, Unwrap(CharsBefore(text, n)))

\* summarize: a content of at most max bytes as it is; of a longer one the first
\* max bytes followed by the marker. The slice panics (None) when byte max is
\* inside a character.
summarize(content, max) ==
    IF ByteLen(content) <= max THEN Some(content)
    ELSE IF ~is_char_boundary(content, max) THEN None
    ELSE Some(ByteSlice(content, max) \o Marker)

\* ModelSelector::select: the first of the three that is present.
select(model_override, session_default, global_default) ==
    IF model_override # None THEN model_override
    ELSE IF session_default # None THEN session_default
    ELSE global_default

\* The rows of a table that reference the session, in table order (WHERE session_id = ?1).
RowsOf(rows, id) == SelectSeq(rows, LAMBDA r : r.session_id = id)

\* ORDER BY created_at ASC: every arrangement of the rows in which created_at
\* never decreases.  The query names no second key, so the engine is free in
\* the order of rows with equal created_at.
OrderByCreatedAt(rows) ==
    LET n == Len(rows)
    IN  { [i \in 1..n |-> rows[f[i]]] :
            f \in { g \in [1..n -> 1..n] :
                      /\ \A i, j \in 1..n : i # j => g[i] # g[j]
                      /\ \A i \in 1..(n - 1) : rows[g[i]].created_at <= rows[g[i + 1]].created_at } }

\* get_session with its history: what the three queries can return.
get_session_results(store, msgs, events, id) ==
    IF id \notin DOMAIN store THEN {None}
    ELSE { Some([id |-> id, settings |-> store[id].settings, messages |-> m, tool_history |-> t]) :
             m \in OrderByCreatedAt(RowsOf(msgs, id)), t \in OrderByCreatedAt(RowsOf(events, id)) }

\* list_sessions: the ids, ORDER BY created_at DESC.
list_sessions_results(store) ==
    LET n == Cardinality(DOMAIN store)
    IN  { g \in [1..n -> DOMAIN store] :
            /\ \A i, j \in 1..n : i # j => g[i] # g[j]
            /\ \A i \in 1..(n - 1) : store[g[i]].created_at >= store[g[i + 1]].created_at }

\* delete_session that reports the deletion and keeps the row.
delete_session_keeps_row(store, id) == [existed |-> id \in DOMAIN store, sessions |-> store]

\* delete_session (repository): whether a row was deleted, and the table without it.
delete_session(store, id) == [existed |-> id \in DOMAIN store, sessions |-> Without(store, id)]

\* A request in flight.
Request(n, kind, stage, id, settings) ==
    [n |-> n, kind |-> kind, stage |-> stage, id |-> id, settings |-> settings,
     selected |-> None, user_msg |-> None, content |-> <<>>, url |-> None,
     tool |-> "", args |-> NoArgs, event |-> None, patch |-> None]

\* What a call returned: its status (an HTTP status or a message) and its value, if any.
Return(op, id, code, value) == [op |-> op, id |-> id, status |-> code, value |-> value]

\* What the store specification leaves alone in every step.
apart == <<calls, last, probe, eval>>

\* Utc::now() moves on.
Tick ==
    /\ clock < MaxClock
    /\ clock' = clock + 1
    /\ UNCHANGED <<sessions, tool_events, context_items, rules, fs, http_log, issued,
                   messages, pending, started, ret, apart>>

\* The delete_session handler: 204 when the repository deleted a row, 404 otherwise.
DeleteSessionHandler(id) ==
    /\ LET Deleted(d) ==
               /\ sessions' = d.sessions
               /\ messages' = IF d.existed THEN WithoutSession(messages, id) ELSE messages
               /\ tool_events' = IF d.existed THEN WithoutSession(tool_events, id) ELSE tool_events
               /\ context_items' = IF d.existed THEN WithoutSession(context_items, id)
                                   ELSE context_items
               /\ ret' = Return("delete_session", id, IF d.existed THEN "204" ELSE "404", None)
       IN  Deleted(delete_session(sessions, id))
    /\ UNCHANGED <<rules, fs, http_log, issued, clock, pending, started, apart>>

\* get_session as a reader sees it.
GetSession(id) ==
    /\ \E r \in get_session_results(sessions, messages, tool_events, id) :
          ret' = Return("get_session", id, IF r = None THEN "none" ELSE "some", r)
    /\ UNCHANGED <<sessions, tool_events, context_items, rules, fs, http_log, issued,
                   messages, clock, pending, started, apart>>

\* list_sessions as a reader sees it.
ListSessions ==
    /\ \E r \in list_sessions_results(sessions) : ret' = Return("list_sessions", "", "ok", Some([ids |-> r]))
    /\ UNCHANGED <<sessions, tool_events, context_items, rules, fs, http_log, issued,
                   messages, clock, pending, started, apart>>

\* post_session_message up to its first write: the session is loaded, the model
\* chosen and the user message built.
PostBegin(id, b) ==
    /\ LET Chosen(sess, selected, summary) ==
               IF summary = None
               THEN /\ ret' = Return("post_session_message", id, "panic", None)
                    /\ UNCHANGED <<pending, started>>
               ELSE /\ pending' = pending \cup
                          { [Request(started, "post", "append_user", id, sess.settings) EXCEPT
                               !.selected = selected,
                               !.content = b.content,
                               !.user_msg = Some(Message(UnwrapOr(b.role, "user"),
                                                         Unwrap(summary), selected, clock))] }
                    /\ started' = started + 1
                    /\ ret' = ret
           Got(sess) ==
               IF sess = None
               THEN /\ ret' = Return("post_session_message", id, "404", None)
                    /\ UNCHANGED <<pending, started>>
               ELSE Chosen(Unwrap(sess), select(b.model, Unwrap(sess).settings.default_model, None),
                           summarize(b.content, SummaryMax))
       IN  Got(get_session(sessions, id))
    /\ UNCHANGED <<sessions, tool_events, context_items, rules, fs, http_log, issued,
                   messages, clock, apart>>

\* post_session_message: the user message is appended; the model is called when
\* one was selected.
PostAppendUser(p) ==
    /\ p.kind = "post" /\ p.stage = "append_user"
    /\ IF ~ForeignKeyOk(sessions, p.id)
       THEN /\ ret' = Return("post_session_message", p.id, "500", None)
            /\ pending' = pending \ {p}
            /\ messages' = messages
       ELSE /\ messages' = append_message(messages, p.id, Unwrap(p.user_msg))
            /\ IF p.selected = None
               THEN /\ ret' = Return("post_session_message", p.id, "200",
                                     Some([message |-> Unwrap(p.user_msg)]))
                    /\ pending' = pending \ {p}
               ELSE /\ ret' = ret
                    /\ pending' = (pending \ {p}) \cup {[p EXCEPT !.stage = "generate"]}
    /\ UNCHANGED <<sessions, tool_events, context_items, rules, fs, http_log, issued,
                   clock, started, apart>>

\* post_session_message with a failure of the model answered by 500 and nothing
\* stored.
PostGeneratedFailureFatal(p, generated) ==
    /\ p.kind = "post" /\ p.stage = "generate"
    /\ pending' = pending \ {p}
    /\ LET Responded(summary) ==
               IF generated # None /\ summary = None
               THEN /\ ret' = Return("post_session_message", p.id, "panic", None)
                    /\ UNCHANGED <<messages, tool_events>>
               ELSE IF ~ForeignKeyOk(sessions, p.id) \/ generated = None
               THEN /\ ret' = Return("post_session_message", p.id, "500", None)
                    /\ UNCHANGED <<messages, tool_events>>
               ELSE /\ ret' = Return("post_session_message", p.id, "200",
                                     Some([message |-> Unwrap(p.user_msg)]))
                    /\ IF generated # None
                       THEN /\ messages' = append_message(messages, p.id,
                                               Message("assistant", Unwrap(summary), p.selected,
                                                       clock))
                            /\ tool_events' = tool_events
                       ELSE /\ tool_events' = append_tool_event(tool_events, p.id,
                                                  ToolEvent("model", <<"error", "model failed">>,
                                                            "error", Some("model failed"), clock))
                            /\ messages' = messages
       IN  Responded(IF generated = None THEN None ELSE summarize(Unwrap(generated), SummaryMax))
    /\ UNCHANGED <<sessions, context_items, rules, fs, http_log, issued, clock, started, apart>>

\* post_session_message: the model has answered (generated: Some(content)) or
\* failed (None); the assistant message or the error event is appended.
PostGenerated(p, generated) ==
    /\ p.kind = "post" /\ p.stage = "generate"
    /\ pending' = pending \ {p}
    /\ LET Responded(summary) ==
               IF generated # None /\ summary = None
               THEN /\ ret' = Return("post_session_message", p.id, "panic", None)
                    /\ UNCHANGED <<messages, tool_events>>
               ELSE IF ~ForeignKeyOk(sessions, p.id)
               THEN /\ ret' = Return("post_session_message", p.id, "500", None)
                    /\ UNCHANGED <<messages, tool_events>>
               ELSE /\ ret' = Return("post_session_message", p.id, "200",
                                     Some([message |-> Unwrap(p.user_msg)]))
                    /\ IF generated # None
                       THEN /\ messages' = append_message(messages, p.id,
                                               Message("assistant", Unwrap(summary), p.selected,
                                                       clock))
                            /\ tool_events' = tool_events
                       ELSE /\ tool_events' = append_tool_event(tool_events, p.id,
                                                  ToolEvent("model", <<"error", "model failed">>,
                                                            "error", Some("model failed"), clock))
                            /\ messages' = messages
       IN  Responded(IF generated = None THEN None ELSE summarize(Unwrap(generated), SummaryMax))
    /\ UNCHANGED <<sessions, context_items, rules, fs, http_log, issued, clock, started, apart>>

\* ingest_url up to the request it sends: session, URL, host and allowlist are checked.
IngestBegin(id, url) ==
    /\ started < MaxRequests
    /\ LET Refused(code) ==
               /\ ret' = Return("ingest_url", id, code, None)
               /\ UNCHANGED <<pending, started, http_log>>
           Parsed(sess, host) ==
               IF host = None THEN Refused("400")
               ELSE IF ~is_allowed_host(sess.settings.network_allowlist, Unwrap(host))
                    THEN Refused("403")
               ELSE /\ pending' = pending \cup
                          { [Request(started, "ingest", "fetch", id, sess.settings) EXCEPT
                               !.url = Some(url)] }
                    /\ started' = started + 1
                    /\ http_log' = Append(http_log, url)
                    /\ ret' = ret
           Got(sess) ==
               IF sess = None THEN Refused("404")
               ELSE IF ~url.valid THEN Refused("400")
               ELSE Parsed(Unwrap(sess), host_str(url))
       IN  Got(get_session(sessions, id))
    /\ UNCHANGED <<sessions, tool_events, context_items, rules, fs, issued, messages, clock, apart>>

\* ingest_url: the fetch has returned (fetched: Some(content)) or failed (None).
IngestFetched(p, fetched) ==
    /\ p.kind = "ingest" /\ p.stage = "fetch"
    /\ pending' = pending \ {p}
    /\ IF fetched = None
       THEN /\ ret' = Return("ingest_url", p.id, "400", None)
            /\ tool_events' = tool_events
       ELSE IF ~ForeignKeyOk(sessions, p.id)
       THEN /\ ret' = Return("ingest_url", p.id, "500", None)
            /\ tool_events' = tool_events
       ELSE /\ ret' = Return("ingest_url", p.id, "200", None)
            /\ tool_events' = append_tool_event(tool_events, p.id,
                                  ToolEvent("url", <<"fetched", Unwrap(p.url), Unwrap(fetched)>>,
                                            "ok", None, clock))
    /\ UNCHANGED <<sessions, context_items, rules, fs, http_log, issued, messages, clock,
                   started, apart>>

\* dispatch_tool up to the tool run: the session is loaded and the tool looked up.
DispatchBegin(id, tool_name, args) ==
    /\ LET Failed(msg) ==
               /\ ret' = Return("dispatch_tool", id, msg, None)
               /\ UNCHANGED <<pending, started>>
           Found(sess, tool) ==
               IF sess = None THEN Failed("session not found")
               ELSE IF tool = None THEN Failed("unknown tool")
               ELSE /\ pending' = pending \cup
                          { [Request(started, "dispatch", "run", id, Unwrap(sess).settings) EXCEPT
                               !.tool = Unwrap(tool), !.args = args] }
                    /\ started' = started + 1
                    /\ ret' = ret
       IN  Found(get_session(sessions, id), registry_get(tool_name))
    /\ UNCHANGED <<sessions, tool_events, context_items, rules, fs, http_log, issued,
                   messages, clock, apart>>

\* dispatch_tool with the tool run on the settings the session has now.
DispatchRanOnStoredSettings(p, env) ==
    /\ p.kind = "dispatch" /\ p.stage = "run"
    /\ LET Ran(res) ==
               /\ fs' = res.w.fs
               /\ context_items' = res.w.context_items
               /\ rules' = res.w.rules
               /\ http_log' = res.w.http_log
               /\ IF ~res.ok
                  THEN /\ ret' = Return("dispatch_tool", p.id, res.error, None)
                       /\ pending' = pending \ {p}
                  ELSE /\ ret' = ret
                       /\ pending' = (pending \ {p}) \cup
                              { [p EXCEPT !.stage = "append",
                                          !.event = Some(ToolEvent(p.tool, res.summary, "ok", None,
                                                                   env.now))] }
       IN  Ran(Run(p.tool,
                   ToolContext(p.id, IF p.id \in DOMAIN sessions THEN sessions[p.id].settings
                                     ELSE p.settings),
                   p.args, World(fs, context_items, rules, http_log, DOMAIN sessions), env))
    /\ UNCHANGED <<sessions, tool_events, issued, messages, clock, started, apart>>

\* dispatch_tool: the tool runs with the settings loaded at the start; when it
\* succeeded the ok event is built, with the time read then, and handed to
\* append_tool_event.
DispatchRan(p, env) ==
    /\ p.kind = "dispatch" /\ p.stage = "run"
    /\ LET Ran(res) ==
               /\ fs' = res.w.fs
               /\ context_items' = res.w.context_items
               /\ rules' = res.w.rules
               /\ http_log' = res.w.http_log
               /\ IF ~res.ok
                  THEN /\ ret' = Return("dispatch_tool", p.id, res.error, None)
                       /\ pending' = pending \ {p}
                  ELSE /\ ret' = ret
                       /\ pending' = (pending \ {p}) \cup
                              { [p EXCEPT !.stage = "append",
                                          !.event = Some(ToolEvent(p.tool, res.summary, "ok", None,
                                                                   env.now))] }
       IN  Ran(Run(p.tool, ToolContext(p.id, p.settings), p.args,
                   World(fs, context_items, rules, http_log, DOMAIN sessions), env))
    /\ UNCHANGED <<sessions, tool_events, issued, messages, clock, started, apart>>

\* dispatch_tool: the INSERT of append_tool_event is executed by the database,
\* the future still waiting for its result.
DispatchCommitted(p) ==
    /\ p.kind = "dispatch" /\ p.stage = "append"
    /\ IF ~ForeignKeyOk(sessions, p.id)
       THEN /\ ret' = Return("dispatch_tool", p.id, "FOREIGN KEY constraint failed", None)
            /\ pending' = pending \ {p}
            /\ tool_events' = tool_events
       ELSE /\ tool_events' = append_tool_event(tool_events, p.id, Unwrap(p.event))
            /\ pending' = (pending \ {p}) \cup { [p EXCEPT !.stage = "return"] }
            /\ ret' = ret
    /\ UNCHANGED <<sessions, context_items, rules, fs, http_log, issued, messages, clock,
                   started, apart>>

\* dispatch_tool: the future resumes after the append and returns the result.
DispatchReturned(p) ==
    /\ p.kind = "dispatch" /\ p.stage = "return"
    /\ pending' = pending \ {p}
    /\ ret' = Return("dispatch_tool", p.id, "ok", None)
    /\ UNCHANGED <<sessions, tool_events, context_items, rules, fs, http_log, issued, messages,
                   clock, started, apart>>

\* The inputs of the store specification.
StoreSettingsInputs == { Settings(Some(RootDir), None, Some(<<"docs.example">>)) }
\* The contents posted: a short one, one of max + 1 bytes, and one of max + 1
\* bytes in which byte max is the second byte of a character.
ContentInputs ==
    { <<"h", "i">>,
      [i \in 1..(SummaryMax + 1) |-> "a"],
      [i \in 1..SummaryMax |-> IF i = SummaryMax THEN "e-acute" ELSE "a"] }

PostInputs ==
    { [role |-> None, content |-> <<"h", "i">>, model |-> m] : m \in {None, Some("m")} }
    \cup { [role |-> None, content |-> c, model |-> None] : c \in ContentInputs }
IngestInputs == { Url(TRUE, Some("docs.example")), Url(TRUE, Some("evil.example")) }
StoreCallInputs ==
    { <<"include_file", [NoArgs EXCEPT !.path = Some(Rel(<<"a">>))]>>, <<"files.copy", NoArgs>> }

NextStore ==
    \/ \E settings \in StoreSettingsInputs : CreateSession(settings)
    \/ \E id \in SessionIdInputs : DeleteSessionHandler(id)
    \/ \E id \in SessionIdInputs : GetSession(id)
    \/ ListSessions
    \/ Tick
    \/ started < MaxRequests /\ \E id \in SessionIdInputs, b \in PostInputs : PostBegin(id, b)
    \/ \E p \in pending : PostAppendUser(p)
    \/ \E p \in pending, generated \in {None, Some(<<"y", "o">>)} : PostGenerated(p, generated)
    \/ \E id \in SessionIdInputs, url \in IngestInputs : IngestBegin(id, url)
    \/ \E p \in pending, fetched \in {None, Some("page")} : IngestFetched(p, fetched)
    \/ started < MaxRequests /\ \E id \in SessionIdInputs, c \in StoreCallInputs :
                                    DispatchBegin(id, c[1], c[2])
    \/ \E p \in pending : \E env \in EnvFor(p.tool, p.n) : DispatchRan(p, env)
    \/ \E p \in pending : DispatchCommitted(p)
    \/ \E p \in pending : DispatchReturned(p)

SpecStore == Init /\ [][NextStore]_vars

\* ------------------------------------------------------------------ settings patches

\* ModelParams, and ModelParams::default().
ModelParams(temperature, max_tokens, top_p) ==
    [temperature |-> temperature, max_tokens |-> max_tokens, top_p |-> top_p]
DefaultModelParams == ModelParams(None, None, None)

\* ToolPolicies with both fields, and ToolPolicies::default().
ToolPoliciesOf(dry_run, max_read_bytes) == [dry_run |-> dry_run, max_read_bytes |-> max_read_bytes]
DefaultToolPolicies == ToolPoliciesOf(None, None)

\* SessionSettings with all five fields.
SessionSettings(default_model, model_params, project_root, tool_policies, network_allowlist) ==
    [default_model |-> default_model, model_params |-> model_params, project_root |-> project_root,
     tool_policies |-> tool_policies, network_allowlist |-> network_allowlist]

\* The patches.  An entry of type Option<Option<T>> is None (absent),
\* Some(None) (clear) or Some(Some(v)) (set).
ModelParamsPatch(temperature, max_tokens, top_p) ==
    [temperature |-> temperature, max_tokens |-> max_tokens, top_p |-> top_p]
ToolPoliciesPatch(dry_run, max_read_bytes) == [dry_run |-> dry_run, max_read_bytes |-> max_read_bytes]
SessionSettingsPatch(default_model, model_params, project_root, tool_policies, network_allowlist) ==
    [default_model |-> default_model, model_params |-> model_params, project_root |-> project_root,
     tool_policies |-> tool_policies, network_allowlist |-> network_allowlist]

\* SessionSettingsPatch::default().
EmptyPatch == SessionSettingsPatch(None, None, None, None, None)

\* if let Some(x) = entry { field = x }
Patched(field, entry) == IF entry = None THEN field ELSE Unwrap(entry)

\* The same, with a present null taken for an absent entry.
PatchedUnlessNull(field, entry) ==
    IF entry = None \/ Unwrap(entry) = None THEN field ELSE Unwrap(entry)

\* apply_patch that does not clear.
apply_patch_null_ignored(settings, patch) ==
    LET Params(current, mp) ==
            Some(ModelParams(PatchedUnlessNull(current.temperature, mp.temperature),
                             PatchedUnlessNull(current.max_tokens, mp.max_tokens),
                             PatchedUnlessNull(current.top_p, mp.top_p)))
        Policies(current, tp) ==
            Some(ToolPoliciesOf(PatchedUnlessNull(current.dry_run, tp.dry_run),
                                PatchedUnlessNull(current.max_read_bytes, tp.max_read_bytes)))
    IN  SessionSettings(
            PatchedUnlessNull(settings.default_model, patch.default_model),
            IF patch.model_params = None THEN settings.model_params
            ELSE Params(UnwrapOr(settings.model_params, DefaultModelParams), Unwrap(patch.model_params)),
            PatchedUnlessNull(settings.project_root, patch.project_root),
            IF patch.tool_policies = None THEN settings.tool_policies
            ELSE Policies(UnwrapOr(settings.tool_policies, DefaultToolPolicies), Unwrap(patch.tool_policies)),
            PatchedUnlessNull(settings.network_allowlist, patch.network_allowlist))

\* apply_patch that stores the nested structs whether or not the patch has them.
apply_patch_always_nested(settings, patch) ==
    LET Params(current, mp) ==
            Some(ModelParams(Patched(current.temperature, mp.temperature),
                             Patched(current.max_tokens, mp.max_tokens),
                             Patched(current.top_p, mp.top_p)))
        Policies(current, tp) ==
            Some(ToolPoliciesOf(Patched(current.dry_run, tp.dry_run),
                                Patched(current.max_read_bytes, tp.max_read_bytes)))
    IN  SessionSettings(
            Patched(settings.default_model, patch.default_model),
            Params(UnwrapOr(settings.model_params, DefaultModelParams),
                   UnwrapOr(patch.model_params, ModelParamsPatch(None, None, None))),
            Patched(settings.project_root, patch.project_root),
            Policies(UnwrapOr(settings.tool_policies, DefaultToolPolicies),
                     UnwrapOr(patch.tool_policies, ToolPoliciesPatch(None, None))),
            Patched(settings.network_allowlist, patch.network_allowlist))

\* SessionSettings::apply_patch.
apply_patch(settings, patch) ==
    LET Params(current, mp) ==
            Some(ModelParams(Patched(current.temperature, mp.temperature),
                             Patched(current.max_tokens, mp.max_tokens),
                             Patched(current.top_p, mp.top_p)))
        Policies(current, tp) ==
            Some(ToolPoliciesOf(Patched(current.dry_run, tp.dry_run),
                                Patched(current.max_read_bytes, tp.max_read_bytes)))
    IN  SessionSettings(
            Patched(settings.default_model, patch.default_model),
            IF patch.model_params = None THEN settings.model_params
            ELSE Params(UnwrapOr(settings.model_params, DefaultModelParams), Unwrap(patch.model_params)),
            Patched(settings.project_root, patch.project_root),
            IF patch.tool_policies = None THEN settings.tool_policies
            ELSE Policies(UnwrapOr(settings.tool_policies, DefaultToolPolicies), Unwrap(patch.tool_policies)),
            Patched(settings.network_allowlist, patch.network_allowlist))

\* GlobalConfigDefaults, RequestOverrides, EffectiveSettings.
GlobalConfigDefaults(default_model, model_params, tool_policies) ==
    [default_model |-> default_model, model_params |-> model_params, tool_policies |-> tool_policies]
RequestOverrides(model, model_params, tool_policies) ==
    [model |-> model, model_params |-> model_params, tool_policies |-> tool_policies]
EffectiveSettings(model, model_params, project_root, tool_policies) ==
    [model |-> model, model_params |-> model_params, project_root |-> project_root,
     tool_policies |-> tool_policies]

\* a.or_else(|| b)
or_else(a, b) == IF a # None THEN a ELSE b

\* container.as_ref().and_then(|p| p.field)
and_then(container, field) == IF container = None THEN None ELSE Unwrap(container)[field]

\* resolve_effective_settings with the session's value preferred to the request's.
resolve_effective_settings_session_first(global, session, request) ==
    LET Params(field) ==
            or_else(or_else(and_then(session.model_params, field), and_then(request.model_params, field)),
                    and_then(global.model_params, field))
        Policies(field) ==
            or_else(or_else(and_then(session.tool_policies, field), and_then(request.tool_policies, field)),
                    and_then(global.tool_policies, field))
    IN  EffectiveSettings(
            or_else(or_else(session.default_model, request.model), global.default_model),
            ModelParams(Params("temperature"), Params("max_tokens"), Params("top_p")),
            session.project_root,
            ToolPoliciesOf(Policies("dry_run"), Policies("max_read_bytes")))

\* resolve_effective_settings.
resolve_effective_settings(global, session, request) ==
    LET Params(field) ==
            or_else(or_else(and_then(request.model_params, field), and_then(session.model_params, field)),
                    and_then(global.model_params, field))
        Policies(field) ==
            or_else(or_else(and_then(request.tool_policies, field), and_then(session.tool_policies, field)),
                    and_then(global.tool_policies, field))
    IN  EffectiveSettings(
            or_else(or_else(request.model, session.default_model), global.default_model),
            ModelParams(Params("temperature"), Params("max_tokens"), Params("top_p")),
            session.project_root,
            ToolPoliciesOf(Policies("dry_run"), Policies("max_read_bytes")))

\* ------------------------------------------------------------------ settings evaluations

\* The settings patched: nothing set, everything set, the nested structs
\* present with some fields unset.
PatchSettingsInputs ==
    { SessionSettings(None, None, None, None, None),
      SessionSettings(Some("m1"), Some(ModelParams(Some(5), Some(1024), Some(10))), Some(RootDir),
                      Some(ToolPoliciesOf(Some(TRUE), Some(1024))), Some(<<"docs.example">>)),
      SessionSettings(None, Some(ModelParams(Some(5), None, None)), Some(RootDir),
                      Some(ToolPoliciesOf(None, Some(1024))), None) }

\* The three states of a patch entry that sets v.
Entries(v) == {None, Some(None), Some(Some(v))}

\* Every patch over one new value per field.
PatchInputs ==
    { SessionSettingsPatch(dm, mp, pr, tp, na) :
        dm \in Entries("m2"),
        mp \in {None} \cup { Some(ModelParamsPatch(t, m, p)) :
                               t \in Entries(2), m \in Entries(2048), p \in Entries(9) },
        pr \in Entries(<<"o">>),
        tp \in {None} \cup { Some(ToolPoliciesPatch(d, m)) : d \in Entries(FALSE), m \in Entries(2048) },
        na \in Entries(<<"docs.rs">>) }

\* One evaluation of apply_patch.
ApplyPatch(settings, patch) ==
    /\ eval' = [fn |-> "apply_patch", args |-> <<settings, patch>>,
                result |-> apply_patch(settings, patch)]
    /\ UNCHANGED <<sessions, tool_events, context_items, rules, fs, http_log, calls, last,
                   probe, issued, store_only>>

\* The layers resolved: each nested struct absent, empty, partly and fully set.
LayerModelParams(v) ==
    { None, Some(DefaultModelParams), Some(ModelParams(Some(v), None, None)),
      Some(ModelParams(Some(v), Some(v), Some(v))) }
LayerToolPolicies(b, v) ==
    { None, Some(ToolPoliciesOf(Some(b), None)), Some(ToolPoliciesOf(Some(b), Some(v))) }
GlobalInputs ==
    { GlobalConfigDefaults(m, mp, tp) :
        m \in {None, Some("global-model")}, mp \in LayerModelParams(3), tp \in LayerToolPolicies(TRUE, 3) }
SessionInputs ==
    { SessionSettings(m, mp, Some(RootDir), tp, None) :
        m \in {None, Some("session-model")}, mp \in LayerModelParams(2), tp \in LayerToolPolicies(FALSE, 2) }
RequestInputs ==
    { RequestOverrides(m, mp, tp) :
        m \in {None, Some("request-model")}, mp \in LayerModelParams(1), tp \in LayerToolPolicies(TRUE, 1) }

\* One evaluation of resolve_effective_settings.
ResolveEffective(global, session, request) ==
    /\ eval' = [fn |-> "resolve_effective_settings", args |-> <<global, session, request>>,
                result |-> resolve_effective_settings(global, session, request)]
    /\ UNCHANGED <<sessions, tool_events, context_items, rules, fs, http_log, calls, last,
                   probe, issued, store_only>>

\* One evaluation in a behaviour.
NextSettings ==
    \/ eval.fn = "" /\ \E settings \in PatchSettingsInputs, patch \in PatchInputs :
                           ApplyPatch(settings, patch)
    \/ eval.fn = "" /\ \E global \in GlobalInputs, session \in SessionInputs, request \in RequestInputs :
                           ResolveEffective(global, session, request)

SpecSettings == Init /\ [][NextSettings]_vars

\* ------------------------------------------------------------------ settings PATCH

\* JSON values: null, a scalar, string or array, an object (a function from
\* its keys to values).
JNull == <<"null">>
JValue(v) == <<"value", v>>
JObject(o) == <<"object", o>>
NoKeys == [k \in {} |-> JNull]

\* Deserialize of an Option<Option<T>> field as serde derives it: a missing
\* key is None; null is the None of the outer Option; any other value goes to
\* the inner Option, which takes it as Some(v).
de_option_option(obj, key) ==
    IF key \notin DOMAIN obj THEN None
    ELSE IF obj[key] = JNull THEN None
    ELSE Some(Some(obj[key][2]))

\* Deserialize of ModelParamsPatch and ToolPoliciesPatch from an object.
de_model_params_patch(obj) ==
    ModelParamsPatch(de_option_option(obj, "temperature"), de_option_option(obj, "max_tokens"),
                     de_option_option(obj, "top_p"))
de_tool_policies_patch(obj) ==
    ToolPoliciesPatch(de_option_option(obj, "dry_run"), de_option_option(obj, "max_read_bytes"))

\* Deserialize of SessionSettingsPatch from the request body.
de_session_settings_patch(obj) ==
    SessionSettingsPatch(
        de_option_option(obj, "default_model"),
        IF "model_params" \notin DOMAIN obj THEN None
        ELSE IF obj["model_params"] = JNull THEN None
        ELSE Some(de_model_params_patch(obj["model_params"][2])),
        de_option_option(obj, "project_root"),
        IF "tool_policies" \notin DOMAIN obj THEN None
        ELSE IF obj["tool_policies"] = JNull THEN None
        ELSE Some(de_tool_policies_patch(obj["tool_policies"][2])),
        de_option_option(obj, "network_allowlist"))

\* update_settings: UPDATE sessions SET settings_json WHERE id; no row, no change.
update_settings(store, id, settings) ==
    [x \in DOMAIN store |-> IF x = id THEN [store[x] EXCEPT !.settings = settings] ELSE store[x]]

\* The patch_session_settings handler: the body is deserialized, the session
\* loaded, the patch applied and the settings stored and returned.
PatchSessionSettings(id, body) ==
    /\ started < MaxRequests
    /\ started' = started + 1
    /\ LET Got(sess, patch) ==
               IF sess = None
               THEN /\ ret' = Return("patch_session_settings", id, "404",
                                     Some([body |-> body, settings |-> None]))
                    /\ sessions' = sessions
               ELSE /\ sessions' = update_settings(sessions, id, apply_patch(Unwrap(sess).settings, patch))
                    /\ ret' = Return("patch_session_settings", id, "200",
                                     Some([body |-> body,
                                           settings |-> Some(apply_patch(Unwrap(sess).settings, patch))]))
       IN  Got(get_session(sessions, id), de_session_settings_patch(body))
    /\ UNCHANGED <<tool_events, context_items, rules, fs, http_log, issued, messages, clock,
                   pending, apart>>

\* The bodies sent: the empty object; each plain key as null and with a value;
\* the nested objects as null, empty and with entries; two keys at once.
PatchBodyInputs ==
    { NoKeys,
      [default_model |-> JNull], [default_model |-> JValue("m2")],
      [project_root |-> JNull], [project_root |-> JValue(<<"o">>)],
      [network_allowlist |-> JNull], [network_allowlist |-> JValue(<<"docs.rs">>)],
      [model_params |-> JNull], [model_params |-> JObject(NoKeys)],
      [model_params |-> JObject([temperature |-> JNull])],
      [model_params |-> JObject([temperature |-> JValue(2), max_tokens |-> JNull])],
      [tool_policies |-> JNull], [tool_policies |-> JObject([dry_run |-> JNull])],
      [tool_policies |-> JObject([dry_run |-> JValue(FALSE)])],
      [project_root |-> JNull, default_model |-> JValue("m2")] }

NextPatch ==
    \/ \E settings \in PatchSettingsInputs : CreateSession(settings)
    \/ \E id \in SessionIdInputs, body \in PatchBodyInputs : PatchSessionSettings(id, body)

SpecPatch == Init /\ [][NextPatch]_vars

\* ------------------------------------------------------------------ concurrent settings PATCH
\* Several patch_session_settings handlers in flight at once, each suspended
\* between its get_session and its update_settings.

MaxPatches == 2

\* patch_session_settings up to the write: the session is loaded and the patch
\* applied to the loaded copy of its settings.
PatchBegin(id, body) ==
    /\ LET Got(sess, patch) ==
               IF sess = None
               THEN /\ ret' = Return("patch_session_settings", id, "404",
                                     Some([body |-> body, settings |-> None]))
                    /\ UNCHANGED <<pending, started>>
               ELSE /\ pending' = pending \cup
                          { [Request(started, "patch", "store", id,
                                     apply_patch(Unwrap(sess).settings, patch)) EXCEPT
                               !.patch = Some(body)] }
                    /\ started' = started + 1
                    /\ ret' = ret
       IN  Got(get_session(sessions, id), de_session_settings_patch(body))
    /\ UNCHANGED <<sessions, tool_events, context_items, rules, fs, http_log, issued, messages,
                   clock, apart>>

\* patch_session_settings: update_settings writes the patched copy, and the
\* handler answers with it.
PatchCommitted(p) ==
    /\ p.kind = "patch" /\ p.stage = "store"
    /\ pending' = pending \ {p}
    /\ sessions' = update_settings(sessions, p.id, p.settings)
    /\ ret' = Return("patch_session_settings", p.id, "200",
                     Some([body |-> Unwrap(p.patch), settings |-> Some(p.settings)]))
    /\ UNCHANGED <<tool_events, context_items, rules, fs, http_log, issued, messages, clock,
                   started, apart>>

\* The bodies sent at once: each names one key, no two the same one.
ConcurrentBodyInputs ==
    { [default_model |-> JValue("m2")],
      [project_root |-> JValue(<<"o">>)],
      [tool_policies |-> JObject([dry_run |-> JValue(FALSE)])] }

NextPatches ==
    \/ \E settings \in PatchSettingsInputs : CreateSession(settings)
    \/ \E id \in SessionIds : DeleteSession(id)
    \/ started < MaxPatches /\ \E id \in SessionIdInputs, body \in ConcurrentBodyInputs :
                                  PatchBegin(id, body)
    \/ \E p \in pending : PatchCommitted(p)

SpecPatches == Init /\ [][NextPatches]_vars

\* ------------------------------------------------------------------ concurrent dispatches
\* Several dispatch_tool futures of the server in flight at once.

MaxDispatches == 2

\* The future of a dispatch is dropped at one of its suspension points: the
\* tool run or the append (before or after the database executed the INSERT).
DispatchCancelled(p) ==
    /\ p.kind = "dispatch"
    /\ pending' = pending \ {p}
    /\ ret' = Return("dispatch_tool", p.id, "cancelled", None)
    /\ UNCHANGED <<sessions, tool_events, context_items, rules, fs, http_log, issued, messages,
                   clock, started, apart>>

\* A settings update of another request commits (update_settings).
SettingsUpdated(id, settings) ==
    /\ id \in DOMAIN sessions
    /\ sessions[id].settings # settings
    /\ sessions' = update_settings(sessions, id, settings)
    /\ UNCHANGED <<tool_events, context_items, rules, fs, http_log, issued, calls, last, probe,
                   store_only, eval>>

DispatchSettingsInputs ==
    { Settings(Some(RootDir), Some(ToolPolicies(Some(TRUE))), Some(<<"docs.example">>)),
      Settings(Some(RootDir), Some(ToolPolicies(Some(FALSE))), None),
      Settings(None, None, None) }

DispatchCallInputs ==
    { <<"files.write", [NoArgs EXCEPT !.path = Some(Rel(<<"n">>)), !.content = Some("new")]>> }

NextDispatch ==
    \/ \E settings \in DispatchSettingsInputs : CreateSession(settings)
    \/ Tick
    \/ started < MaxDispatches /\ \E id \in SessionIds, c \in DispatchCallInputs :
                                     DispatchBegin(id, c[1], c[2])
    \/ \E p \in pending : \E env \in EnvFor(p.tool, p.n) : DispatchRan(p, env)
    \/ \E p \in pending : DispatchCommitted(p)
    \/ \E p \in pending : DispatchReturned(p)
    \/ \E p \in pending : DispatchCancelled(p)
    \/ \E id \in SessionIds, settings \in DispatchSettingsInputs : SettingsUpdated(id, settings)

SpecDispatch == Init /\ [][NextDispatch]_vars

\* ------------------------------------------------------------------ history pages
\* get_session_history over a log that does not change: single pages, and the
\* walk a client makes from the first page along next_cursor.

DefaultLimit == 50
MaxLimit == 200
MaxLog == 402

Smaller(a, b) == IF a <= b THEN a ELSE b
Larger(a, b) == IF a >= b THEN a ELSE b

\* paginate with next_cursor one past the end of the page.
paginate_skipping(data, cursor, limit) ==
    LET Cut(start, end) ==
            [page |-> SubSeq(data, start + 1, end),
             next |-> IF end < Len(data) THEN Some(end + 1) ELSE None]
        From(start) ==
            IF start >= Len(data) THEN [page |-> <<>>, next |-> None]
            ELSE Cut(start, Smaller(start + limit, Len(data)))
    IN  From(UnwrapOr(cursor, 0))

\* paginate: the records data[start..end] and the cursor of the next page.
paginate(data, cursor, limit) ==
    LET Cut(start, end) ==
            [page |-> SubSeq(data, start + 1, end),
             next |-> IF end < Len(data) THEN Some(end) ELSE None]
        From(start) ==
            IF start >= Len(data) THEN [page |-> <<>>, next |-> None]
            ELSE Cut(start, Smaller(start + limit, Len(data)))
    IN  From(UnwrapOr(cursor, 0))

\* get_session_history: q.limit.unwrap_or(50).min(200).max(1).
page_limit(limit) == Larger(Smaller(UnwrapOr(limit, DefaultLimit), MaxLimit), 1)

\* get_session_history for a session that exists and one of the two kinds: a
\* page of the log.
get_session_history(log, cursor, limit) == paginate(log, cursor, page_limit(limit))

\* The logs: records are numbered in log order.
LogInputs == { [i \in 1..n |-> i] : n \in {0, 1, 3, DefaultLimit + 1, MaxLimit + 1, MaxLog} }
LimitInputs == {None} \cup { Some(n) : n \in {0, 1, 2, MaxLimit, MaxLimit + 1, MaxLog + 1} }
CursorInputs ==
    {None} \cup { Some(n) : n \in {0, 1, 3, DefaultLimit, MaxLimit, MaxLimit + 1, MaxLog, MaxLog + 1} }

History(log, cursor, limit, walk, seen, res) ==
    [fn |-> "history", args |-> <<log, cursor, limit>>,
     result |-> Some([page |-> res.page, next_cursor |-> res.next, walk |-> walk,
                      seen |-> seen \o res.page])]

\* One request for a page at any cursor.
HistoryPage(log, cursor, limit) ==
    /\ eval' = History(log, cursor, limit, FALSE, <<>>, get_session_history(log, cursor, limit))
    /\ UNCHANGED <<sessions, tool_events, context_items, rules, fs, http_log, calls, last,
                   probe, issued, store_only>>

\* The first request of a walk: no cursor.
HistoryFirst(log, limit) ==
    /\ eval' = History(log, None, limit, TRUE, <<>>, get_session_history(log, None, limit))
    /\ UNCHANGED <<sessions, tool_events, context_items, rules, fs, http_log, calls, last,
                   probe, issued, store_only>>

\* The next request of the walk: the cursor is the next_cursor of the last answer.
HistoryFollow ==
    /\ eval.fn = "history"
    /\ Unwrap(eval.result).walk
    /\ Unwrap(eval.result).next_cursor # None
    /\ eval' = History(eval.args[1], Unwrap(eval.result).next_cursor, eval.args[3], TRUE,
                       Unwrap(eval.result).seen,
                       get_session_history(eval.args[1], Unwrap(eval.result).next_cursor,
                                           eval.args[3]))
    /\ UNCHANGED <<sessions, tool_events, context_items, rules, fs, http_log, calls, last,
                   probe, issued, store_only>>

NextHistory ==
    \/ eval.fn = "" /\ \E log \in LogInputs, cursor \in CursorInputs, limit \in LimitInputs :
                          HistoryPage(log, cursor, limit)
    \/ eval.fn = "" /\ \E log \in LogInputs, limit \in LimitInputs : HistoryFirst(log, limit)
    \/ HistoryFollow

SpecHistory == Init /\ [][NextHistory]_vars

\* ------------------------------------------------------------------ allowlist evaluations

\* The longest allowlist tried.
MaxListLen == 2

\* A host, the same in capitals, a subdomain of it, a name it is a prefix of,
\* and another host.
HostInputs == {"docs.example", "DOCS.example", "sub.docs.example", "docs.example.com", "evil.example"}

\* No list, and every list of at most MaxListLen of the hosts.
AllowlistInputs ==
    {None} \cup { Some(l) : l \in UNION { [1..k -> HostInputs] : k \in 0..MaxListLen } }

\* One evaluation of is_allowed_host.
AllowedHost(allowlist, host) ==
    /\ eval' = [fn |-> "is_allowed_host", args |-> <<allowlist, host>>,
                result |-> is_allowed_host(allowlist, host)]
    /\ UNCHANGED <<sessions, tool_events, context_items, rules, fs, http_log, calls, last,
                   probe, issued, store_only>>

\* One evaluation in a behaviour.
NextHost ==
    eval.fn = "" /\ \E allowlist \in AllowlistInputs, host \in HostInputs : AllowedHost(allowlist, host)

SpecHost == Init /\ [][NextHost]_vars

\* ------------------------------------------------------------------ path sandbox properties

\* The probed path joined to the canonical root and folded, as written (no
\* filesystem access).
ProbeLexical == Normalize(<<>>, Join(Unwrap(canonicalize(fs, probe.root)), probe.rel))

\* The probe was made under a root that exists, and its path lies lexically
\* outside the canonical root.
ProbedOutside ==
    /\ probe # NoProbe
    /\ canonicalize(fs, probe.root) # None
    /\ ~StartsWith(ProbeLexical, Unwrap(canonicalize(fs, probe.root)))

\* Some prefix of the path p is a symbolic link.
ThroughLink(f, p) == \E k \in 1..Len(p) : Lookup(f, SubSeq(p, 1, k)).kind = "link"

Dispatching == calls' = calls + 1

\* The call ran a tool of the set names.
Running(names) == Dispatching /\ last'.ran /\ last'.tool \in names

\* The settings of the session the call was made for.
CallSettings == sessions[last'.session_id].settings

\* The entries of f that lie outside the canonical project root.
OutsideRoot(f) == [p \in {x \in DOMAIN f : ~StartsWith(x, RootDir)} |-> f[p]]

FileTools == {"files.write", "files.move", "files.delete"}

\* C2 as stated: files.write, files.move and files.delete run with dry_run = false
\* never create, modify, rename or remove an entry outside the canonical root,
\* whatever symbolic links the filesystem holds.
C2_FileToolsStayInRoot ==
    [][(Running(FileTools) /\ last'.args.dry_run = Some(FALSE)) =>
           OutsideRoot(fs') = OutsideRoot(fs)]_vars

\* C3 as stated: when the tool run fails, dispatch_tool appends one tool event
\* with status error and the message, and then returns the failure.
C3_ErrorEventAppended ==
    [][(Dispatching /\ last'.ran /\ ~last'.ok) =>
           /\ Len(tool_events') = Len(tool_events) + 1
           /\ tool_events'[Len(tool_events')].status = "error"
           /\ tool_events'[Len(tool_events')].error = Some(last'.error)]_vars

C5_DryRunChangesNothing ==
    [][(Running(FileTools) /\ EffectiveDryRun(CallSettings, last'.args)) =>
           /\ fs' = fs
           /\ last'.ok => last'.data = Some([applied |-> FALSE])]_vars

\* A dry-run files.write of new content over an existing file succeeded, and the
\* file still holds the old content.
C5_Witness ==
    /\ last.tool = "files.write"
    /\ last.ok
    /\ last.args.path = Some(Rel(<<"a">>))
    /\ last.args.dry_run = Some(TRUE)
    /\ last.data = Some([applied |-> FALSE])
    /\ fs[<<"r", "a">>] = FileEntry("old")

\* The dry_run the claim names: the argument if given, else the session's
\* tool_policies.dry_run if set, else true.
StatedDryRun(settings, args) ==
    IF args.dry_run # None THEN Unwrap(args.dry_run)
    ELSE IF settings.tool_policies # None /\ Unwrap(settings.tool_policies).dry_run # None
         THEN Unwrap(Unwrap(settings.tool_policies).dry_run)
    ELSE TRUE

\* C6: the dry_run a file tool acts on is the argument if given, else the
\* session's tool_policies.dry_run if set, else true: a successful call applies
\* its change exactly when that value is false.
C6_DryRunDefault ==
    [][(Running(FileTools) /\ last'.ok) =>
           last'.data = Some([applied |-> ~StatedDryRun(CallSettings, last'.args)])]_vars

\* A files.write without a dry_run argument, in a session whose policy sets
\* dry_run to false, was applied.
C6_Witness ==
    /\ last.tool = "files.write"
    /\ last.ok
    /\ last.args.dry_run = None
    /\ last.session_id \in DOMAIN sessions
    /\ sessions[last.session_id].settings.tool_policies = Some(ToolPolicies(Some(FALSE)))
    /\ last.data = Some([applied |-> TRUE])
    /\ fs[<<"r", "a">>] = FileEntry("new")

\* The URL parses, has a host, and the session's allowlist names that host.
HostPermitted(settings, args) ==
    /\ args.url # None
    /\ Unwrap(args.url).valid
    /\ Unwrap(args.url).host # None
    /\ settings.network_allowlist # None
    /\ \E i \in 1..Len(Unwrap(settings.network_allowlist)) :
          Unwrap(settings.network_allowlist)[i] = ToLower(Unwrap(Unwrap(args.url).host))

\* C7: include_url sends a request and stores a context item only when the host
\* is permitted; for a URL whose host is not permitted (no allowlist included) it
\* fails with "host not allowlisted", has sent no request and has stored nothing.
C7_ForbiddenHostNoRequest ==
    [][Running({"include_url"}) =>
           /\ (http_log' # http_log \/ context_items' # context_items) =>
                 HostPermitted(CallSettings, last'.args)
           /\ (/\ last'.args.url # None
               /\ Unwrap(last'.args.url).valid
               /\ Unwrap(last'.args.url).host # None
               /\ ~HostPermitted(CallSettings, last'.args)) =>
                 /\ ~last'.ok
                 /\ last'.error = "host not allowlisted"
                 /\ http_log' = http_log
                 /\ context_items' = context_items
           /\ last'.ok =>
                 /\ http_log' = Append(http_log, Unwrap(last'.args.url))
                 /\ Len(context_items') = Len(context_items) + 1]_vars

\* include_url was refused for a host the session's allowlist does not name, and
\* nothing was requested or stored.
C7_Witness ==
    /\ last.tool = "include_url"
    /\ last.ran
    /\ last.args.url = Some(Url(TRUE, Some("evil.example")))
    /\ last.error = "host not allowlisted"
    /\ http_log = <<>>
    /\ context_items = <<>>

\* C8 as stated: add_rule with system = false writes only inside the project
\* root, whatever name and repo_dir are.
C8_RepoRuleStaysInRoot ==
    [][(Running({"add_rule"}) /\ ~UnwrapOr(last'.args.system, FALSE)) =>
           OutsideRoot(fs') = OutsideRoot(fs)]_vars

FsModifyingTools == FileTools \cup {"add_rule", "git.add_all", "git.commit"}

\* C9 as stated: in a session whose tool_policies.dry_run is true, a call of a
\* filesystem-modifying tool that does not override it leaves the filesystem
\* as it was.
C9_PolicyDryRunChangesNothing ==
    [][(/\ Running(FsModifyingTools)
        /\ CallSettings.tool_policies = Some(ToolPolicies(Some(TRUE)))
        /\ last'.args.dry_run = None) => fs' = fs]_vars

\* Nothing but the call counter and the record of the call changes.
StoreUntouched ==
    UNCHANGED <<sessions, tool_events, context_items, rules, fs, http_log, issued>>

\* C10: a call for a session that does not exist fails with "session not found",
\* whether or not the tool is registered; a call for an existing session and an
\* unregistered name fails with "unknown tool"; in both no tool is run, no event
\* is appended and the store is as it was.
C10_NotFoundBeforeUnknown ==
    [][Dispatching =>
           /\ last'.session_id \notin DOMAIN sessions =>
                 /\ ~last'.ok /\ last'.error = "session not found"
                 /\ ~last'.ran /\ StoreUntouched
           /\ (last'.session_id \in DOMAIN sessions /\ registry_get(last'.tool) = None) =>
                 /\ ~last'.ok /\ last'.error = "unknown tool"
                 /\ ~last'.ran /\ StoreUntouched]_vars

\* An unregistered tool was called for a session that does not exist, and the
\* call failed with "session not found".
C10_Witness ==
    /\ calls > 0
    /\ last.session_id = "s0"
    /\ last.tool = "files.copy"
    /\ last.error = "session not found"
    /\ ~last.ran

\* ------------------------------------------------------------------ store properties

\* C11: every stored tool event has its error text exactly when its status is
\* "error", whichever handler appended it (dispatch_tool, post_session_message,
\* ingest_url).
C11_ErrorIffStatusError ==
    \A i \in 1..Len(tool_events) :
        (tool_events[i].error # None) <=> (tool_events[i].status = "error")

\* The failed model call of post_session_message has left its error event.
C11_Witness ==
    \E i \in 1..Len(tool_events) :
        /\ tool_events[i].tool = "model"
        /\ tool_events[i].status = "error"
        /\ tool_events[i].error = Some("model failed")

\* A step in which a call of op returns (something other than what was last returned).
Returned(op) == ret'.op = op /\ ret' # ret

\* The step in which the delete_session handler returns.
DeleteReturned == Returned("delete_session")

\* C12: when delete_session reports a deletion, the session had a row and
\* afterwards get_session finds none, list_sessions does not list the id and no
\* message, tool event or context item references it; when it reports none,
\* the id had no row and the tables are as they were.
C12_DeleteCascades ==
    [][DeleteReturned =>
           IF ret'.status = "204"
           THEN /\ ret'.id \in DOMAIN sessions
                /\ get_session(sessions', ret'.id) = None
                /\ get_session_results(sessions', messages', tool_events', ret'.id) = {None}
                /\ \A l \in list_sessions_results(sessions') :
                       \A i \in DOMAIN l : l[i] # ret'.id
                /\ RowsOf(messages', ret'.id) = <<>>
                /\ RowsOf(tool_events', ret'.id) = <<>>
                /\ RowsOf(context_items', ret'.id) = <<>>
           ELSE /\ ret'.id \notin DOMAIN sessions
                /\ UNCHANGED <<sessions, messages, tool_events, context_items>>]_vars

\* A session was deleted after the user message of a request still in flight
\* had been stored, and the message is gone.
C12_Witness ==
    /\ ret.op = "delete_session" /\ ret.status = "204"
    /\ \E p \in pending : p.id = ret.id /\ p.kind = "post" /\ p.stage = "generate"
    /\ messages = <<>>

\* C13: under every interleaving of create_session, delete_session and the
\* requests in flight (post_session_message, ingest_url, dispatch_tool with its
\* add_context_item), every stored message, tool event and context item
\* references a session that has a row; so an append for a session that is
\* absent, or was deleted while the request was in flight, stores nothing.
C13_NoOrphanRows ==
    /\ \A i \in 1..Len(messages) : messages[i].session_id \in DOMAIN sessions
    /\ \A i \in 1..Len(tool_events) : tool_events[i].session_id \in DOMAIN sessions
    /\ \A i \in 1..Len(context_items) : context_items[i].session_id \in DOMAIN sessions

\* A request loaded its session, the session was deleted, and the request's
\* append was refused.
C13_Witness ==
    /\ ret.id \in issued \ DOMAIN sessions
    /\ \/ ret.op = "post_session_message" /\ ret.status = "500"
       \/ ret.op = "ingest_url" /\ ret.status = "500"
       \/ ret.op = "dispatch_tool" /\ ret.status = "FOREIGN KEY constraint failed"
    /\ messages = <<>> /\ tool_events = <<>> /\ context_items = <<>>

\* ------------------------------------------------------------------ allowlist properties

\* is_allowed_host has been evaluated.
HostEvaluated == eval.fn = "is_allowed_host"

\* C14: is_allowed_host is false for every host when the session has no
\* allowlist and when its allowlist is empty.
C14_NoListDeniesAll ==
    (HostEvaluated /\ (eval.args[1] = None \/ eval.args[1] = Some(<<>>))) => ~eval.result

\* A host was refused under the empty list.
C14_Witness ==
    HostEvaluated /\ eval.args[1] = Some(<<>>) /\ eval.args[2] = "docs.example" /\ ~eval.result

\* Two host names are equal when case is ignored.
EqIgnoreCase(a, b) == ToLower(a) = ToLower(b)

\* C15 as stated: with an allowlist, is_allowed_host is true exactly when some
\* entry equals the host under case-insensitive comparison; a subdomain or a
\* longer name of an entry is not allowed.
C15_CaseInsensitiveExactMatch ==
    (HostEvaluated /\ eval.args[1] # None) =>
        (eval.result <=> \E i \in 1..Len(Unwrap(eval.args[1])) :
                            EqIgnoreCase(Unwrap(eval.args[1])[i], eval.args[2]))

\* ------------------------------------------------------------------ settings properties

\* apply_patch has been evaluated on settings eval.args[1] and patch eval.args[2].
PatchEvaluated == eval.fn = "apply_patch"

\* What a patch entry asks of the field it is for: absent leaves the old
\* value, null clears, a value sets.
EntryApplied(old, entry, new) ==
    /\ entry = None => new = old
    /\ entry = Some(None) => new = None
    /\ (entry # None /\ Unwrap(entry) # None) => new = Unwrap(entry)

\* The top-level fields with an entry of their own, and the inner fields of
\* the two nested structs.
PlainFields == {"default_model", "project_root", "network_allowlist"}
InnerFields(nested) ==
    IF nested = "model_params" THEN {"temperature", "max_tokens", "top_p"}
    ELSE {"dry_run", "max_read_bytes"}

\* C16: apply_patch sets a field whose entry has a value, clears one whose
\* entry is null and leaves one whose entry is absent as it was: for each
\* top-level field, and for each inner field of model_params and tool_policies
\* on its own (an inner field of a struct that is not there counts as unset).
C16_PatchPerField ==
    PatchEvaluated =>
        /\ \A f \in PlainFields : EntryApplied(eval.args[1][f], eval.args[2][f], eval.result[f])
        /\ \A nested \in {"model_params", "tool_policies"} :
              IF eval.args[2][nested] = None
              THEN eval.result[nested] = eval.args[1][nested]
              ELSE \A f \in InnerFields(nested) :
                      EntryApplied(and_then(eval.args[1][nested], f),
                                   Unwrap(eval.args[2][nested])[f],
                                   and_then(eval.result[nested], f))

\* One patch has set a field, cleared a field and left a field alone, at the
\* top level and inside model_params.
C16_Witness ==
    /\ PatchEvaluated
    /\ eval.args[1].default_model = Some("m1") /\ eval.result.default_model = Some("m2")
    /\ eval.args[1].project_root # None /\ eval.args[2].project_root = Some(None)
    /\ eval.result.project_root = None
    /\ eval.args[2].network_allowlist = None /\ eval.result.network_allowlist = Some(<<"docs.example">>)
    /\ eval.result.model_params = Some(ModelParams(Some(2), None, Some(10)))
    /\ eval.args[2].model_params = Some(ModelParamsPatch(Some(Some(2)), Some(None), None))

\* resolve_effective_settings has been evaluated on the global defaults
\* eval.args[1], the session settings eval.args[2] and the request overrides
\* eval.args[3].
ResolveEvaluated == eval.fn = "resolve_effective_settings"

\* out is the request's value when it has one, else the session's when it has
\* one, else the global one (unset when that is unset too).
Layered(request, session, global, out) ==
    /\ request # None => out = request
    /\ (request = None /\ session # None) => out = session
    /\ (request = None /\ session = None) => out = global

\* C18: resolve_effective_settings takes each of model, temperature,
\* max_tokens, top_p, dry_run and max_read_bytes from the request when the
\* request sets it, else from the session, else from the global defaults, else
\* leaves it unset; each field is resolved on its own.
C18_RequestSessionGlobal ==
    ResolveEvaluated =>
        /\ Layered(eval.args[3].model, eval.args[2].default_model, eval.args[1].default_model,
                   eval.result.model)
        /\ \A f \in InnerFields("model_params") :
              Layered(and_then(eval.args[3].model_params, f), and_then(eval.args[2].model_params, f),
                      and_then(eval.args[1].model_params, f), eval.result.model_params[f])
        /\ \A f \in InnerFields("tool_policies") :
              Layered(and_then(eval.args[3].tool_policies, f), and_then(eval.args[2].tool_policies, f),
                      and_then(eval.args[1].tool_policies, f), eval.result.tool_policies[f])

\* One evaluation took temperature from the request, the model and dry_run
\* from the session, max_tokens and max_read_bytes from the global defaults,
\* and left top_p unset.
C18_Witness ==
    /\ ResolveEvaluated
    /\ eval.args[3] = RequestOverrides(None, Some(ModelParams(Some(1), None, None)), None)
    /\ eval.args[2].model_params = Some(ModelParams(Some(2), None, None))
    /\ eval.args[1].model_params = Some(ModelParams(Some(3), Some(3), Some(3)))
    /\ eval.result.model = Some("session-model")
    /\ eval.result.model_params = ModelParams(Some(1), Some(3), Some(3))
    /\ eval.result.tool_policies = ToolPoliciesOf(Some(FALSE), Some(3))

\* C19: the empty patch leaves the settings equal to what they were.
C19_EmptyPatchIdentity ==
    (PatchEvaluated /\ eval.args[2] = EmptyPatch) => eval.result = eval.args[1]

\* The empty patch was applied to settings without nested structs and to
\* settings with every field set.
C19_Witness ==
    /\ PatchEvaluated /\ eval.args[2] = EmptyPatch
    /\ eval.args[1].model_params = None /\ eval.args[1].tool_policies = None
    /\ eval.result.model_params = None /\ eval.result.tool_policies = None

\* The step in which patch_session_settings stores patched settings; the body
\* it was sent is PatchBody.
PatchStored ==
    /\ started' = started + 1
    /\ ret'.op = "patch_session_settings"
    /\ ret'.status = "200"

PatchBody == Unwrap(ret'.value).body

\* C17 as stated: a settings PATCH whose body has a field set to null clears
\* that field of the stored settings, and one whose body omits the field
\* leaves it as it was.
C17_NullClearsOmittedKeeps ==
    [][PatchStored =>
           \A f \in PlainFields :
               /\ (f \in DOMAIN PatchBody /\ PatchBody[f] = JNull) =>
                      sessions'[ret'.id].settings[f] = None
               /\ f \notin DOMAIN PatchBody =>
                      sessions'[ret'.id].settings[f] = sessions[ret'.id].settings[f]]_vars

\* ------------------------------------------------------------------ ordering properties

\* The rows sorted by created_at ascending, rows with equal created_at in the
\* order of the table (insertion order).
InAppendOrder(rows) ==
    LET n == Len(rows)
        f == CHOOSE g \in [1..n -> 1..n] :
                 \A i, j \in 1..n :
                     i < j => \/ rows[g[i]].created_at < rows[g[j]].created_at
                              \/ rows[g[i]].created_at = rows[g[j]].created_at /\ g[i] < g[j]
    IN  [i \in 1..n |-> rows[f[i]]]

\* C20 as stated: get_session returns the messages and the tool events of the
\* session sorted by created_at ascending, records with equal created_at in
\* the order in which they were appended.
C20_SortedTiesInAppendOrder ==
    [][(Returned("get_session") /\ ret'.value # None) =>
           /\ Unwrap(ret'.value).messages = InAppendOrder(RowsOf(messages, ret'.id))
           /\ Unwrap(ret'.value).tool_history = InAppendOrder(RowsOf(tool_events, ret'.id))]_vars

\* ------------------------------------------------------------------ message properties

\* The length of a text in characters; no text has more characters than bytes
\* or UTF-16 code units.
CharLen(text) == Len(text)

\* C22 as stated: the content_summary of every stored message is at most 200
\* units long, whatever content was posted.
C22_SummaryAtMostMax ==
    \A i \in 1..Len(messages) :
        /\ CharLen(messages[i].content_summary) <= SummaryMax
        /\ ByteLen(messages[i].content_summary) <= SummaryMax

\* The row of the user message of post p is in the table.
UserMessageStored(p, msgs) ==
    \E i \in 1..Len(msgs) : msgs[i] = append_message(<<>>, p.id, Unwrap(p.user_msg))[1]

\* What the claim says of a failed model call: the user message stays, one
\* event with status error is appended and no message, and the response is the
\* success carrying the user message.
FailureRecorded(p) ==
    /\ UserMessageStored(p, messages')
    /\ messages' = messages
    /\ Len(tool_events') = Len(tool_events) + 1
    /\ SubSeq(tool_events', 1, Len(tool_events)) = tool_events
    /\ tool_events'[Len(tool_events')].session_id = p.id
    /\ tool_events'[Len(tool_events')].status = "error"
    /\ ret' = Return("post_session_message", p.id, "200", Some([message |-> Unwrap(p.user_msg)]))

\* The model is called only by a post whose user message has been appended.
CalledAfterAppend ==
    \A q \in pending' \ pending :
        (q.kind = "post" /\ q.stage = "generate") => UserMessageStored(q, messages')

\* C30 as stated: the user message is appended before the model is called, and
\* when the model call fails the user message stays, exactly one error event
\* and no assistant message is appended, and the request returns the user
\* message as a success.
C30_FailureKeepsUserMessage ==
    [][/\ CalledAfterAppend
       /\ \A p \in pending : PostGenerated(p, None) => FailureRecorded(p)]_vars

\* C30, amended: the same, for a session that still exists when the model call
\* has failed (a session deleted meanwhile took the user message with it, the
\* error event cannot be stored and the request answers 500).
C30_FailureKeepsUserMessageOfLiveSession ==
    [][/\ CalledAfterAppend
       /\ \A p \in pending :
              (PostGenerated(p, None) /\ p.id \in DOMAIN sessions) => FailureRecorded(p)
       /\ \A p \in pending :
              (PostGenerated(p, None) /\ p.id \notin DOMAIN sessions)
                  => /\ ret' = Return("post_session_message", p.id, "500", None)
                     /\ UNCHANGED <<messages, tool_events>>]_vars

\* A post ended after its model call failed: the response carries the user
\* message, the session has that one message and the error event of the model.
C30_Witness ==
    /\ ret.op = "post_session_message" /\ ret.status = "200" /\ ret.value # None
    /\ RowsOf(messages, ret.id) = <<[session_id |-> ret.id] @@ Unwrap(ret.value).message>>
    /\ \E i \in 1..Len(tool_events) :
          /\ tool_events[i].session_id = ret.id
          /\ tool_events[i].tool = "model" /\ tool_events[i].status = "error"

\* ------------------------------------------------------------------ history properties

HistoryAnswered == eval.fn = "history"
\* The log, the offset and the limit of the request answered, and what is left
\* of the log from the offset on.
AskedLog == eval.args[1]
AskedOffset == UnwrapOr(eval.args[2], 0)
AskedLimit == UnwrapOr(eval.args[3], DefaultLimit)
Remaining == Larger(Len(AskedLog) - AskedOffset, 0)
Answer == Unwrap(eval.result)

\* The page is the stretch of the log that starts at the offset, next_cursor is
\* the offset after it while records remain, and a walk from the start has seen
\* the log up to there, each record once and in log order, and goes on exactly
\* while records remain.
PageFollowsLog(most) ==
    /\ Answer.page = SubSeq(AskedLog, AskedOffset + 1, AskedOffset + Len(Answer.page))
    /\ Len(Answer.page) <= most
    /\ Len(Answer.page) >= Smaller(1, Remaining)
    /\ Answer.next_cursor = IF AskedOffset + Len(Answer.page) < Len(AskedLog)
                            THEN Some(AskedOffset + Len(Answer.page)) ELSE None
    /\ Answer.walk =>
          /\ Answer.seen = SubSeq(AskedLog, 1, AskedOffset + Len(Answer.page))
          /\ Answer.next_cursor = None <=> Answer.seen = AskedLog

\* C27 as stated: a page starts at the cursor offset, holds at most
\* min(limit, 200) and at least min(1, remaining) records, next_cursor is the
\* offset after the page when records remain and absent otherwise, and the walk
\* from offset 0 returns every record once, in log order, and stops.
C27_PagesCoverLog == HistoryAnswered => PageFollowsLog(Smaller(AskedLimit, MaxLimit))

\* C27, amended: the same with a page of at most min(max(limit, 1), 200)
\* records, limit being 50 when the request names none: a limit of 0 is served
\* as a limit of 1.
C27_PagesCoverLogLimitAtLeastOne ==
    HistoryAnswered => PageFollowsLog(Smaller(Larger(AskedLimit, 1), MaxLimit))

\* A walk over the longest log with a limit above the cap has ended: three
\* pages, the first two of 200 records, and every record seen.
C27_Witness ==
    /\ HistoryAnswered /\ Answer.walk
    /\ Len(AskedLog) = MaxLog /\ AskedLimit > MaxLimit
    /\ AskedOffset = 2 * MaxLimit
    /\ Answer.next_cursor = None /\ Answer.seen = AskedLog

\* ------------------------------------------------------------------ project root properties

\* The errors a tool gives for arguments it cannot use.
ArgumentErrors ==
    {"missing path", "missing from", "missing to", "missing content", "missing url",
     "missing name", "missing pattern", "missing message", "invalid url", "invalid host"}

\* A registered tool ran, with arguments it accepts, for a session whose
\* project_root is unset.
RanWithoutRoot ==
    /\ Dispatching /\ last'.ran
    /\ last'.session_id \in DOMAIN sessions
    /\ sessions[last'.session_id].settings.project_root = None
    /\ last'.error \notin ArgumentErrors

\* C24 as stated: every tool dispatched for a session whose project_root is
\* unset fails with ConfigMissing and has no effect: no context item, no rule,
\* no change of the filesystem, no request sent.
C24_NoRootFailsWithoutEffect ==
    [][RanWithoutRoot =>
           /\ ~last'.ok /\ last'.error = "no project_root"
           /\ UNCHANGED <<context_items, rules, fs, http_log, tool_events>>]_vars

\* ------------------------------------------------------------------ missing path properties

\* The canonical form of the deepest ancestor of the path that exists.
DeepestExistingAncestor(f, path) ==
    LET lens == {k \in 0..(Len(path) - 1) : canonicalize(f, SubSeq(path, 1, k)) # None}
        Deepest(k) == canonicalize(f, SubSeq(path, 1, k))
    IN  IF lens = {} THEN None ELSE Deepest(CHOOSE k \in lens : \A j \in lens : j <= k)

\* The probe was made under a root that exists, for a path that does not exist.
ProbedMissing ==
    /\ probe # NoProbe
    /\ normalize_root(fs, probe.root) # None
    /\ canonicalize(fs, ProbeLexical) = None

\* C25 as stated: for a path that does not exist yet resolve_under_root decides
\* by the deepest existing ancestor: the path when the canonical form of that
\* ancestor lies within the canonical root, also with missing directories in
\* between, and Denied otherwise.
C25_MissingDecidedByDeepestAncestor ==
    ProbedMissing =>
        probe.result =
            IF /\ DeepestExistingAncestor(fs, ProbeLexical) # None
               /\ StartsWith(Unwrap(DeepestExistingAncestor(fs, ProbeLexical)),
                             Unwrap(normalize_root(fs, probe.root)))
            THEN Some(ProbeLexical) ELSE None

\* ------------------------------------------------------------------ patch frame properties

\* The patch names no plain field, and of the nested patches at least one is
\* present and every present one has all its inner fields absent.
OnlyEmptyNested(patch) ==
    /\ patch.default_model = None /\ patch.project_root = None /\ patch.network_allowlist = None
    /\ patch.model_params \in {None, Some(ModelParamsPatch(None, None, None))}
    /\ patch.tool_policies \in {None, Some(ToolPoliciesPatch(None, None))}
    /\ patch # EmptyPatch

\* C26 as stated: a patch whose nested patch is present with all inner fields
\* absent leaves the settings equal to what they were, also when the nested
\* value was unset before.
C26_EmptyNestedPatchIdentity ==
    (PatchEvaluated /\ OnlyEmptyNested(eval.args[2])) => eval.result = eval.args[1]

\* ------------------------------------------------------------------ concurrency properties

\* C21 as stated: within one session the created_at values of the tool events,
\* taken in the order in which their appends committed (the order of the
\* table), never decrease, also when dispatches interleave between reading the
\* time and committing the append.
C21_CreatedAtFollowsCommitOrder ==
    \A i, j \in 1..Len(tool_events) :
        (i < j /\ tool_events[i].session_id = tool_events[j].session_id)
            => tool_events[i].created_at <= tool_events[j].created_at

\* The row of the dispatch is in the table: its INSERT was executed.
EventAppended(p) ==
    /\ p.stage = "return"
    /\ \E i \in 1..Len(tool_events) :
          tool_events[i] = append_tool_event(<<>>, p.id, Unwrap(p.event))[1]

\* C23 as stated: a dispatch cancelled at a suspension point before it
\* completes has appended no tool event.
C23_CancelledAppendsNothing ==
    [][\A p \in pending : DispatchCancelled(p) => ~EventAppended(p)]_vars

\* The tool of dispatch p ran in this step: p went on to the append or returned
\* the tool's error.
ToolRan(p) ==
    /\ p.kind = "dispatch" /\ p.stage = "run"
    /\ p \notin pending'
    /\ \/ \E q \in pending' : q.n = p.n
       \/ ret' # ret /\ ret'.status # "cancelled"

\* What the step shows of the tool run: the world it leaves and its outcome.
ShowsRun(p, res) ==
    /\ fs' = res.w.fs
    /\ context_items' = res.w.context_items
    /\ rules' = res.w.rules
    /\ http_log' = res.w.http_log
    /\ IF res.ok THEN \E q \in pending' : q.n = p.n /\ Unwrap(q.event).summary = res.summary
       ELSE ret'.status = res.error

\* C29: a dispatch carries the settings that were stored when it loaded the
\* session, and its tool decides (project root, dry-run default, allowlist) on
\* exactly these: a settings update that commits between the load and the run
\* changes nothing of what the tool does.
C29_ToolSeesLoadedSettings ==
    [][/\ \A q \in pending' \ pending :
              (q.kind = "dispatch" /\ q.stage = "run")
                  => q.id \in DOMAIN sessions /\ q.settings = sessions[q.id].settings
       /\ \A p \in pending :
              ToolRan(p) => \E env \in EnvFor(p.tool, p.n) :
                               ShowsRun(p, Run(p.tool, ToolContext(p.id, p.settings), p.args,
                                               World(fs, context_items, rules, http_log,
                                                     DOMAIN sessions), env))]_vars

\* A files.write loaded under a dry-run policy did its dry run (the file is not
\* there) although the session's stored settings have meanwhile become ones
\* under which the write would have been made.
C29_Witness ==
    \E p \in pending :
        /\ p.kind = "dispatch" /\ p.stage = "append" /\ p.tool = "files.write"
        /\ p.settings = Settings(Some(RootDir), Some(ToolPolicies(Some(TRUE))), Some(<<"docs.example">>))
        /\ p.id \in DOMAIN sessions
        /\ sessions[p.id].settings = Settings(Some(RootDir), Some(ToolPolicies(Some(FALSE))), None)
        /\ RootDir \o <<"n">> \notin DOMAIN fs

SettingsKeys ==
    {"default_model", "model_params", "project_root", "tool_policies", "network_allowlist"}

\* C28 as stated: concurrent settings PATCH requests on disjoint fields all take
\* effect: the commit of one changes none of the fields its body leaves out,
\* so what another request stored there meanwhile is not lost.
C28_NoLostUpdate ==
    [][\A p \in pending :
           (PatchCommitted(p) /\ p.id \in DOMAIN sessions)
               => \A key \in SettingsKeys \ DOMAIN Unwrap(p.patch) :
                      sessions'[p.id].settings[key] = sessions[p.id].settings[key]]_vars

====
